---- MODULE Spec2Model ----
(***************************************************************************)
(* A model of the LFS data cleaners: five report scripts that read a CSV   *)
(* of service rows (Location, Payor, Patient, Service) and print and       *)
(* persist de-duplicated counts.  Every script has the same shape: main()  *)
(* obtains the rows, then runs its stages one after the other inside one   *)
(* try block.  The state machine below is main(): one action per stage,    *)
(* each stage computed by an operator translated from the function it      *)
(* calls.                                                                  *)
(***************************************************************************)
EXTENDS Integers, Sequences, FiniteSets, TLC

VARIABLES
    script,       \* which script is run
    source,       \* "no_arg" | "missing" | "ok": how sys.argv / the file turn out
    failing,      \* kinds of output file ("txt", "csv") whose open() fails
    data,         \* the rows csv_to_dictionary returns (a sequence of dicts)
    pc,           \* the next stage of main()
    exit_status,  \* "running" | "exit0" | "exit1"
    stages,       \* the stages of main() that completed, in order
    agg,          \* what the script's aggregation function returned
    gaps,         \* gaps_summary of analyze_data_gaps, as printed
    report,       \* what the last report generator built
    files,        \* the files written so far: name -> content
    console       \* the messages main() itself printed

vars == <<script, source, failing, data, pc, exit_status, stages, agg, gaps,
          report, files, console>>

(***************************************************************************)
(* Bounds.                                                                 *)
(***************************************************************************)
\* The most rows of a file read by a client-count script, by telemedSort.py
\* and by telemedPercentage.py; five visits of one patient are the fewest
\* that give a percentage above 0 and below 25
MaxRows == 3
MaxVisits == 4
MaxOkcVisits == 5

(***************************************************************************)
(* Python values.  A field value is a str or None; a dict maps some keys   *)
(* to values.  A value is modelled as a sequence of at most one string:    *)
(* <<>> is None and <<s>> is the str s.                                    *)
(***************************************************************************)
None == <<>>
Str(s) == <<s>>
IsStr(v) == v # None
Val(v) == v[1]

\* bool(v) for v a str or None
Truthy(v) == IsStr(v) /\ Val(v) # ""

\* row.get(key)
Get(row, key) == IF key \in DOMAIN row THEN row[key] ELSE None

\* row.get(key, '')
GetOrEmpty(row, key) == IF key \in DOMAIN row THEN row[key] ELSE Str("")

EmptyDict == [k \in {} |-> {}]

\* d with d[k] = v set
Put(d, k, v) == [x \in DOMAIN d \cup {k} |-> IF x = k THEN v ELSE d[x]]

(***************************************************************************)
(* Strings.  str.strip, str.upper, str.lower, the `in` substring test and  *)
(* the ordinal order that sorted() uses, over the characters of Chars      *)
(* (listed in code-point order).                                           *)
(***************************************************************************)
Chars == " ,-./ABCDEFGHIJKLMNOPQRSTUVWXYZabcdefghijklmnopqrstuvwxyz"
Uppers == "ABCDEFGHIJKLMNOPQRSTUVWXYZ"
Lowers == "abcdefghijklmnopqrstuvwxyz"

CharAt(s, i) == SubSeq(s, i, i)
Rest(s) == SubSeq(s, 2, Len(s))
IndexIn(alphabet, c) ==
    IF \E i \in 1..Len(alphabet) : CharAt(alphabet, i) = c
    THEN CHOOSE i \in 1..Len(alphabet) : CharAt(alphabet, i) = c
    ELSE 0
Ord(c) == IndexIn(Chars, c)

RECURSIVE strip(_)
strip(s) ==
    IF s = "" THEN ""
    ELSE IF CharAt(s, 1) = " " THEN strip(Rest(s))
    ELSE IF CharAt(s, Len(s)) = " " THEN strip(SubSeq(s, 1, Len(s) - 1))
    ELSE s

UpperChar(c) == IF IndexIn(Lowers, c) > 0 THEN CharAt(Uppers, IndexIn(Lowers, c)) ELSE c
LowerChar(c) == IF IndexIn(Uppers, c) > 0 THEN CharAt(Lowers, IndexIn(Uppers, c)) ELSE c

RECURSIVE upper(_)
upper(s) == IF s = "" THEN "" ELSE UpperChar(CharAt(s, 1)) \o upper(Rest(s))

RECURSIVE lower(_)
lower(s) == IF s = "" THEN "" ELSE LowerChar(CharAt(s, 1)) \o lower(Rest(s))

\* s.title() for s a single word
Title(s) == IF s = "" THEN "" ELSE UpperChar(CharAt(s, 1)) \o lower(Rest(s))

\* sub in s
Contains(sub, s) ==
    \E i \in 1..(Len(s) - Len(sub) + 1) : SubSeq(s, i, i + Len(sub) - 1) = sub

\* s < t for two str
RECURSIVE StrLess(_, _)
StrLess(s, t) ==
    IF t = "" THEN FALSE
    ELSE IF s = "" THEN TRUE
    ELSE IF CharAt(s, 1) # CharAt(t, 1) THEN Ord(CharAt(s, 1)) < Ord(CharAt(t, 1))
    ELSE StrLess(Rest(s), Rest(t))

\* sorted(S) for S a set of str
RECURSIVE SortedStrs(_)
SortedStrs(S) ==
    IF S = {} THEN <<>>
    ELSE LET m == CHOOSE x \in S : \A y \in S \ {x} : StrLess(x, y)
         IN  <<m>> \o SortedStrs(S \ {m})

RECURSIVE SumSeq(_)
SumSeq(s) == IF s = <<>> THEN 0 ELSE s[1] + SumSeq(Tail(s))

Front(s) == SubSeq(s, 1, Len(s) - 1)
Last(s) == s[Len(s)]

(***************************************************************************)
(* The rows a CSV can hold.  csv.DictReader gives every row the header's   *)
(* keys; a row shorter than the header carries None for the cells it       *)
(* lacks, and a file without a column gives rows without that key.         *)
(***************************************************************************)
Row3(location, payor, patient) ==
    [Location |-> location, Payor |-> payor, Patient |-> patient]

Row4(location, payor, patient, service) ==
    [Location |-> location, Payor |-> payor, Patient |-> patient, Service |-> service]

\* Rows for the three client-count scripts.
ClientPool ==
    { Row3(Str("OKC"), Str("Medicare"), Str("Ann")),
      Row3(Str(" OKC "), Str("Medicare "), Str(" Ann")),
      Row3(Str("OKC"), Str("Aetna"), Str("Ann")),
      Row3(Str("OKC"), Str("Medicare"), Str("Bob")),
      Row3(Str("Ardmore"), Str("Aetna"), Str("Ann")),
      Row3(Str(""), Str("Medicare"), Str("Ann")),
      Row3(Str("OKC"), Str(" "), Str("Bob")),
      Row3(Str(" "), Str(""), Str("Bob")),
      Row3(Str("ARDMORE"), Str("Aetna"), Str("  ")),
      Row3(Str(""), Str("Aetna"), Str(" ")),
      Row3(Str("OKC"), None, None),
      Row3(Str("ARDMORE"), Str(""), Str("Ann")),
      [Location |-> Str("ARDMORE"), Patient |-> Str("Ann")] }

\* Rows for telemedPercentage.py
OkcPool ==
    { Row4(Str("OKC"), Str("Medicare"), Str("Ann"), Str("Telemedicine Visit")),
      Row4(Str(" okc "), Str("SoonerCare Choice"), Str(" Ann "), Str("Office Visit")),
      Row4(Str("OKC"), Str(""), Str("Bob"), Str("TELEMEDICINE")),
      Row4(Str("ARDMORE"), Str("Medicare"), Str("Ann"), Str("Telemedicine Visit")),
      Row4(Str("OKC"), Str("Medicare"), Str(" "), Str("telemedicine")),
      Row4(Str("OKC"), Str("Medicare"), Str("Bob"), None) }

\* Rows for telemedSort.py
TelemedPool ==
    { Row4(Str("OKC"), Str("Medicare"), Str("Ann"), Str("Telemedicine Visit")),
      Row4(Str(" ARDMORE"), Str("SoonerCare Choice "), Str(" Ann "), Str("telemedicine")),
      Row4(Str("OKC"), Str("Medicare"), Str("Bob"), Str("Office Visit")),
      Row4(Str("OKC"), Str("Aetna"), Str(""), Str("TELEMEDICINE")),
      Row4(Str(""), None, Str("Bob"), Str("Telemedicine Visit")),
      Row4(Str("OKC"), Str("Medicare"), None, None) }

\* All sequences over S of length at most n
RECURSIVE SeqsUpTo(_, _)
SeqsUpTo(S, n) ==
    IF n = 0 THEN {<<>>}
    ELSE LET shorter == SeqsUpTo(S, n - 1)
         IN  shorter \cup {Append(s, x) : s \in {t \in shorter : Len(t) = n - 1}, x \in S}

(***************************************************************************)
(* Grouping aggregators                                                    *)
(***************************************************************************)
\* The test `not key or not key.strip() or not patient or not patient.strip()`
SkipsRow(row, key) ==
    \/ ~Truthy(Get(row, key))
    \/ strip(Val(Get(row, key))) = ""
    \/ ~Truthy(Get(row, "Patient"))
    \/ strip(Val(Get(row, "Patient"))) = ""

\* One turn of the loop of process_client_by_location / process_client_by_payor:
\* key_patients is the dict of sets, key the column grouped by.
AddPatient(key_patients, row, key) ==
    IF SkipsRow(row, key) THEN key_patients
    ELSE LET k == strip(Val(Get(row, key)))
             patient == strip(Val(Get(row, "Patient")))
             seen == IF k \in DOMAIN key_patients THEN key_patients[k] ELSE {}
         IN  Put(key_patients, k, seen \cup {patient})

RECURSIVE GroupPatients(_, _)
GroupPatients(rows, key) ==
    IF rows = <<>> THEN EmptyDict
    ELSE AddPatient(GroupPatients(Front(rows), key), Last(rows), key)

\* Faulty variant: the number of rows kept under each key, not the number of patients
RECURSIVE CountRows(_, _)
CountRows(rows, key) ==
    IF rows = <<>> THEN EmptyDict
    ELSE LET counts == CountRows(Front(rows), key)
             row == Last(rows)
             k == strip(Val(Get(row, key)))
         IN  IF SkipsRow(row, key) THEN counts
             ELSE Put(counts, k, (IF k \in DOMAIN counts THEN counts[k] ELSE 0) + 1)

process_client_by_location_rows(rows) == CountRows(rows, "Location")

process_client_by_location(rows) ==
    LET location_patients == GroupPatients(rows, "Location")
    IN  [location \in DOMAIN location_patients |-> Cardinality(location_patients[location])]

process_client_by_payor(rows) ==
    LET payor_patients == GroupPatients(rows, "Payor")
    IN  [payor \in DOMAIN payor_patients |-> Cardinality(payor_patients[payor])]

\* `not all([location, payor, patient]) or not all([location.strip(), ...])`
SkipsRow2(row) ==
    \/ ~Truthy(Get(row, "Location"))
    \/ ~Truthy(Get(row, "Payor"))
    \/ ~Truthy(Get(row, "Patient"))
    \/ strip(Val(Get(row, "Location"))) = ""
    \/ strip(Val(Get(row, "Payor"))) = ""
    \/ strip(Val(Get(row, "Patient"))) = ""

\* Faulty variant: a loop turn that makes a new set for the payor on every row
AddLocationPayerPatientOverwriting(location_payer_patients, row) ==
    IF SkipsRow2(row) THEN location_payer_patients
    ELSE LET location == strip(Val(Get(row, "Location")))
             payor == strip(Val(Get(row, "Payor")))
             patient == strip(Val(Get(row, "Patient")))
             payors == IF location \in DOMAIN location_payer_patients
                       THEN location_payer_patients[location] ELSE EmptyDict
         IN  Put(location_payer_patients, location, Put(payors, payor, {patient}))

\* Faulty variant: a loop turn that makes the location's entry before it looks at the payor
AddLocationPayerPatientEagerly(location_payer_patients, row) ==
    LET withLocation ==
            IF Truthy(Get(row, "Location")) /\ strip(Val(Get(row, "Location"))) # ""
                 /\ strip(Val(Get(row, "Location"))) \notin DOMAIN location_payer_patients
            THEN Put(location_payer_patients, strip(Val(Get(row, "Location"))), EmptyDict)
            ELSE location_payer_patients
    IN  IF SkipsRow2(row) THEN withLocation
        ELSE LET location == strip(Val(Get(row, "Location")))
                 payor == strip(Val(Get(row, "Payor")))
                 patient == strip(Val(Get(row, "Patient")))
                 payors == withLocation[location]
                 seen == IF payor \in DOMAIN payors THEN payors[payor] ELSE {}
             IN  Put(withLocation, location, Put(payors, payor, seen \cup {patient}))

\* One turn of the loop of process_client_by_location_and_payer
AddLocationPayerPatient(location_payer_patients, row) ==
    IF SkipsRow2(row) THEN location_payer_patients
    ELSE LET location == strip(Val(Get(row, "Location")))
             payor == strip(Val(Get(row, "Payor")))
             patient == strip(Val(Get(row, "Patient")))
             payors == IF location \in DOMAIN location_payer_patients
                       THEN location_payer_patients[location] ELSE EmptyDict
             seen == IF payor \in DOMAIN payors THEN payors[payor] ELSE {}
         IN  Put(location_payer_patients, location, Put(payors, payor, seen \cup {patient}))

RECURSIVE process_client_by_location_and_payer(_)
process_client_by_location_and_payer(rows) ==
    IF rows = <<>> THEN EmptyDict
    ELSE AddLocationPayerPatient(process_client_by_location_and_payer(Front(rows)), Last(rows))

(***************************************************************************)
(* Numbers as the reports print them                                       *)
(***************************************************************************)
\* x / total * 100 if total > 0 else 0, kept as the fraction num / den with
\* num = x * 100 and den = total, from which Tenths below computes the
\* double.  The quotients the scripts compare (0, 25, 75, 100) are exact in
\* floating point too, so the comparisons below agree with the code's.
Pct(x, total) == IF total > 0 THEN [num |-> x * 100, den |-> total] ELSE [num |-> 0, den |-> 1]

(***************************************************************************)
(* Floating point.  x / total * 100 is a double: x / total is rounded to   *)
(* 53 significant bits and so is its product with 100, and f"{p:.1f}"      *)
(* prints the decimal nearest to that double.  A double is modelled as     *)
(* [m, e], the value m * 2^e, with m a sequence of 53 bits that begins     *)
(* with a 1; whole numbers too large for an integer of the model are       *)
(* sequences of bits, the most significant first.  The operators split     *)
(* their sequences in halves to keep the evaluation shallow.               *)
(***************************************************************************)
\* The bits of a double's significand
Significand == 53

ZeroBits(n) == [i \in 1..n |-> 0]

\* bits * 2^n
ShiftLeft(bits, n) == bits \o ZeroBits(n)

\* bits with zeros put in front up to the length n
PadBits(bits, n) == ZeroBits(n - Len(bits)) \o bits

\* bits without the zeros in front
StripZeros(bits) ==
    IF \A i \in 1..Len(bits) : bits[i] = 0 THEN <<>>
    ELSE SubSeq(bits, CHOOSE i \in 1..Len(bits) :
                          bits[i] = 1 /\ \A j \in 1..(i - 1) : bits[j] = 0,
                Len(bits))

\* The bits of n >= 0
RECURSIVE ToBits(_)
ToBits(n) == IF n = 0 THEN <<>> ELSE ToBits(n \div 2) \o <<n % 2>>

\* a + b + carry for a and b of one length; the sum has one bit more.
\* The low halves are added first and their carry goes into the high halves.
RECURSIVE AddWithCarry(_, _, _)
RECURSIVE AddHigh(_, _, _)
AddWithCarry(a, b, carry) ==
    IF a = <<>> THEN <<carry>>
    ELSE IF Len(a) = 1
    THEN <<(a[1] + b[1] + carry) \div 2, (a[1] + b[1] + carry) % 2>>
    ELSE AddHigh(SubSeq(a, 1, Len(a) \div 2), SubSeq(b, 1, Len(a) \div 2),
                 AddWithCarry(SubSeq(a, Len(a) \div 2 + 1, Len(a)),
                              SubSeq(b, Len(a) \div 2 + 1, Len(a)), carry))

AddHigh(a, b, low) ==
    IF low[1] = 1 THEN AddWithCarry(a, b, 1) \o Tail(low)
    ELSE AddWithCarry(a, b, 0) \o Tail(low)

BitsAdd(a, b) ==
    LET n == IF Len(a) > Len(b) THEN Len(a) ELSE Len(b)
    IN  StripZeros(AddWithCarry(PadBits(a, n), PadBits(b, n), 0))

\* a < b for a and b of one length: they differ and b has the 1 where they
\* first do
BitsLessPadded(a, b) ==
    /\ a # b
    /\ b[CHOOSE i \in 1..Len(a) : a[i] # b[i] /\ SubSeq(a, 1, i - 1) = SubSeq(b, 1, i - 1)] = 1

\* a < b for two whole numbers
BitsLess(a, b) ==
    LET n == IF Len(a) > Len(b) THEN Len(a) ELSE Len(b)
    IN  BitsLessPadded(PadBits(a, n), PadBits(b, n))

\* Round to nearest, ties to even: the double nearest to digits * 2^e, for
\* digits of at least 53 bits that begin with a 1; `sticky` says that the
\* exact value lies above digits * 2^e
RoundToDouble(digits, sticky, e) ==
    LET kept == SubSeq(digits, 1, Significand)
        rest == SubSeq(digits, Significand + 1, Len(digits))
        half == rest # <<>> /\ rest[1] = 1
        more == sticky \/ \E i \in 2..Len(rest) : rest[i] = 1
        up == half /\ (more \/ kept[Significand] = 1)
        sum == IF up THEN AddWithCarry(kept, ZeroBits(Significand), 1) ELSE <<0>> \o kept
    IN  IF sum[1] = 1
        THEN [m |-> SubSeq(sum, 1, Significand), e |-> e + Len(rest) + 1]
        ELSE [m |-> Tail(sum), e |-> e + Len(rest)]

\* x and t scaled by powers of two until 1 <= x / t < 2: the first
\* quotient is the last one times 2^e
RECURSIVE Normalised(_, _, _)
Normalised(x, t, e) ==
    IF x < t THEN Normalised(2 * x, t, e - 1)
    ELSE IF x >= 2 * t THEN Normalised(x, 2 * t, e + 1)
    ELSE [x |-> x, t |-> t, e |-> e]

\* The first n binary digits of r / t after the point, for r < t, and what
\* is left of r.  The first half of the digits is computed first and the
\* second half from what it leaves.
RECURSIVE LongDivision(_, _, _)
RECURSIVE DivideOn(_, _, _)
LongDivision(r, t, n) ==
    IF r = 0 \/ n = 0 THEN [bits |-> ZeroBits(n), rest |-> r]
    ELSE IF n = 1
    THEN IF 2 * r >= t THEN [bits |-> <<1>>, rest |-> 2 * r - t]
         ELSE [bits |-> <<0>>, rest |-> 2 * r]
    ELSE DivideOn(LongDivision(r, t, n \div 2), t, n - n \div 2)

DivideOn(first, t, n) ==
    IF first.rest = 0 THEN [bits |-> first.bits \o ZeroBits(n), rest |-> 0]
    ELSE [bits |-> first.bits \o LongDivision(first.rest, t, n).bits,
          rest |-> LongDivision(first.rest, t, n).rest]

\* x / total for two int, x > 0 and total > 0
TrueDivide(x, total) ==
    LET n == Normalised(x, total, 0)
        q == LongDivision(n.x - n.t, n.t, Significand)
    IN  RoundToDouble(<<1>> \o q.bits, q.rest # 0, n.e - Significand)

\* d * 100 for a double d
Times100(d) ==
    LET product == BitsAdd(BitsAdd(ShiftLeft(d.m, 6), ShiftLeft(d.m, 5)), ShiftLeft(d.m, 2))
    IN  RoundToDouble(product, FALSE, d.e)

\* The double d rounded to a whole number of tenths, halves to even, given
\* that it lies between the whole numbers of tenths q and q + 1 or next to
\* them: settled by comparing 20 * d with 2 * q + 1
NearestTenth(d, q) ==
    LET twenty_d == ShiftLeft(BitsAdd(ShiftLeft(d.m, 4), ShiftLeft(d.m, 2)),
                              IF d.e > 0 THEN d.e ELSE 0)
        tie == ShiftLeft(ToBits(2 * q + 1), IF d.e < 0 THEN 0 - d.e ELSE 0)
    IN  IF BitsLess(tie, twenty_d) THEN q + 1
        ELSE IF BitsLess(twenty_d, tie) THEN q
        ELSE IF q % 2 = 1 THEN q + 1 ELSE q

\* The number of tenths f"{p:.1f}" prints for p = x / total * 100.  The
\* double differs from the quotient by less than 2^-40 of it, so that it
\* rounds to the whole tenths q of the quotient or to q + 1.  The integers
\* of the model hold x * 1000 and 2 * total for x and total up to two million.
Tenths(p) ==
    IF p.num = 0 THEN 0
    ELSE NearestTenth(Times100(TrueDivide(p.num \div 100, p.den)), (p.num * 10) \div p.den)

\* A number of tenths as the digits before the point, the point and one digit
TenthsText(tenths) == ToString(tenths \div 10) \o "." \o ToString(tenths % 10)

\* f"{p:.1f}"
Format1f(p) == TenthsText(Tenths(p))

RECURSIVE Repeat(_, _)
Repeat(c, n) == IF n = 0 THEN "" ELSE c \o Repeat(c, n - 1)

Min(a, b) == IF a < b THEN a ELSE b

\* s[:n]
Prefix(s, n) == SubSeq(s, 1, Min(n, Len(s)))

\* Faulty variant: the keys by ascending count (the key without the minus sign)
RECURSIVE SortedByCountAscending(_, _)
SortedByCountAscending(d, keys) ==
    IF keys = {} THEN <<>>
    ELSE LET m == CHOOSE x \in keys : \A y \in keys \ {x} :
                      d[x] < d[y] \/ (d[x] = d[y] /\ StrLess(x, y))
         IN  <<m>> \o SortedByCountAscending(d, keys \ {m})

\* sorted(d.items(), key=lambda x: (-x[1], x[0])) for d a dict of counts, as keys
RECURSIVE SortedByCount(_, _)
SortedByCount(d, keys) ==
    IF keys = {} THEN <<>>
    ELSE LET m == CHOOSE x \in keys : \A y \in keys \ {x} :
                      d[x] > d[y] \/ (d[x] = d[y] /\ StrLess(x, y))
         IN  <<m>> \o SortedByCount(d, keys \ {m})

\* A dict that remembers the order its keys were first set in, as Python's do
EmptyOrdered == [order |-> <<>>, of |-> EmptyDict]
PutOrdered(d, k, v) ==
    [order |-> IF k \in DOMAIN d.of THEN d.order ELSE Append(d.order, k),
     of |-> Put(d.of, k, v)]

\* sorted(items, key=count, reverse=True), a stable sort: `order` sorted by
\* descending count[x], equal counts kept in the order of `order`
RECURSIVE StableByCountDesc(_, _)
StableByCountDesc(order, count) ==
    IF order = <<>> THEN <<>>
    ELSE LET m == CHOOSE i \in 1..Len(order) :
                      /\ \A j \in 1..Len(order) : count[order[j]] <= count[order[i]]
                      /\ \A j \in 1..(i - 1) : count[order[j]] < count[order[i]]
         IN  <<order[m]>> \o
             StableByCountDesc(SubSeq(order, 1, m - 1) \o SubSeq(order, m + 1, Len(order)),
                               count)

(***************************************************************************)
(* analyze_data_gaps                                                       *)
(***************************************************************************)
\* row.get(key, '').strip() raises AttributeError on a None value
StripRaises(row, key) == key \in DOMAIN row /\ row[key] = None

\* row.get(key, '').strip()
Field(row, key) == strip(Val(GetOrEmpty(row, key)))

GapsRowRaises(row) ==
    StripRaises(row, "Location") \/ StripRaises(row, "Payor") \/ StripRaises(row, "Patient")

GapsStart ==
    [has_payor_no_location |-> {}, has_location_no_payor |-> {},
     has_both |-> 0, has_neither |-> 0,
     payor_only_by_payor |-> EmptyOrdered, location_only_by_location |-> EmptyOrdered]

AddTo(d, k, patient) ==
    PutOrdered(d, k, (IF k \in DOMAIN d.of THEN d.of[k] ELSE {}) \cup {patient})

\* One turn of the loop of analyze_data_gaps
GapsStep(acc, row) ==
    LET location == Field(row, "Location")
        payor == Field(row, "Payor")
        patient == Field(row, "Patient")
    IN  IF payor # "" /\ location = ""
        THEN IF patient # ""
             THEN [acc EXCEPT !.has_payor_no_location = @ \cup {patient},
                              !.payor_only_by_payor = AddTo(@, payor, patient)]
             ELSE acc
        ELSE IF location # "" /\ payor = ""
        THEN IF patient # ""
             THEN [acc EXCEPT !.has_location_no_payor = @ \cup {patient},
                              !.location_only_by_location = AddTo(@, location, patient)]
             ELSE acc
        ELSE IF location # "" /\ payor # ""
        THEN [acc EXCEPT !.has_both = @ + 1]
        ELSE [acc EXCEPT !.has_neither = @ + 1]

RECURSIVE GapsLoop(_)
GapsLoop(rows) ==
    IF rows = <<>> THEN GapsStart ELSE GapsStep(GapsLoop(Front(rows)), Last(rows))

\* The dict gaps_summary
GapsSummary(rows) ==
    LET acc == GapsLoop(rows)
        total_records == Len(rows)
    IN  [total_records |-> total_records,
         has_both |-> acc.has_both,
         has_both_pct |-> Pct(acc.has_both, total_records),
         payor_no_location |-> Cardinality(acc.has_payor_no_location),
         payor_no_location_pct |-> Pct(Cardinality(acc.has_payor_no_location), total_records),
         location_no_payor |-> Cardinality(acc.has_location_no_payor),
         location_no_payor_pct |-> Pct(Cardinality(acc.has_location_no_payor), total_records),
         has_neither |-> acc.has_neither,
         has_neither_pct |-> Pct(acc.has_neither, total_records),
         patients_payor_no_location |-> SortedStrs(acc.has_payor_no_location),
         patients_location_no_payor |-> SortedStrs(acc.has_location_no_payor)]

\* analyze_data_gaps of clientByLocation.py and clientByPayerType.py: what it
\* raises ("" when it returns), whether the summary reached the console, the
\* summary, and the lines of the gaps file it tries to write.
analyze_data_gaps(rows, focus) ==
    IF \E i \in 1..Len(rows) : GapsRowRaises(rows[i])
    THEN [raised |-> "AttributeError", printed |-> FALSE, summary |-> <<>>, txt |-> <<>>]
    ELSE LET acc == GapsLoop(rows)
             listed == IF focus = "Location" THEN acc.has_payor_no_location
                       ELSE acc.has_location_no_payor
         IN  [raised |-> "", printed |-> TRUE, summary |-> <<GapsSummary(rows)>>,
              txt |-> [i \in 1..Cardinality(listed) |-> <<SortedStrs(listed)[i]>>]]

\* The breakdowns the console shows at most
GapsTop == 5

\* for key, patients in sorted(by_key.items(), key=lambda x: -len(x[1]))[:5]:
\* the console lines of one breakdown (sorted() is stable: equal counts stay
\* in the order the keys were first met)
GapsBreakdown(kind, by_key) ==
    LET count == [k \in DOMAIN by_key.of |-> Cardinality(by_key.of[k])]
        shown == Prefix(StableByCountDesc(by_key.order, count), GapsTop)
    IN  [i \in 1..Len(shown) |-> <<kind, shown[i], ToString(count[shown[i]])>>]

\* analyze_data_gaps of clientByLocationAndPayer.py.  The module never imports
\* datetime (generate_summary_report imports it for itself alone), so the line
\* that makes the file name raises NameError once the summary is printed.
analyze_data_gaps_combined(rows) ==
    IF \E i \in 1..Len(rows) : GapsRowRaises(rows[i])
    THEN [raised |-> "AttributeError", printed |-> FALSE, summary |-> <<>>, txt |-> <<>>,
          console |-> <<>>]
    ELSE LET acc == GapsLoop(rows)
         IN  [raised |-> "NameError", printed |-> TRUE, summary |-> <<GapsSummary(rows)>>,
              txt |-> <<>>,
              console |-> GapsBreakdown("payor", acc.payor_only_by_payor)
                          \o GapsBreakdown("location", acc.location_only_by_location)]

(***************************************************************************)
(* Reports.  A report is a sequence of lines and a line a sequence of      *)
(* cells: the padding of the fixed-width columns is left out, the cells    *)
(* and their order are kept.  A count is an int where the code keeps an    *)
(* int (csv rows) and its str() where the code builds text.                *)
(***************************************************************************)
NoReport == [nodata |-> TRUE, console |-> <<<<"No client data found.">>>>,
             txt |-> <<>>, csv |-> <<>>]

\* Faulty variant: the total counted off the rows, one for each key
TotalKeys(count, sorted_items) == Len(sorted_items)

\* total_unique_patients, added up in the loop that emits the rows
TotalUniquePatients(count, sorted_items) ==
    SumSeq([i \in 1..Len(sorted_items) |-> count[sorted_items[i]]])

\* generate_report of clientByLocation.py (label "Location") and of
\* clientByPayerType.py (label "Payor")
generate_report(count, sort_by, label) ==
    IF DOMAIN count = {} THEN NoReport
    ELSE LET sorted_items == IF sort_by = "count" THEN SortedByCount(count, DOMAIN count)
                             ELSE SortedStrs(DOMAIN count)
             n == Len(sorted_items)
             lines == [i \in 1..n |-> <<sorted_items[i], ToString(count[sorted_items[i]])>>]
             total_unique_patients == TotalUniquePatients(count, sorted_items)
             total_line == <<"TOTAL", ToString(total_unique_patients)>>
         IN  [nodata |-> FALSE,
              console |-> <<<<label, "Unique Patients">>>> \o lines \o <<total_line>>,
              txt |-> <<<<"Sort Order: By " \o Title(sort_by)>>, <<label, "Unique Patients">>>>
                      \o lines \o <<total_line>>,
              csv |-> <<<<label, "Unique_Patients">>>>
                      \o [i \in 1..n |-> <<sorted_items[i], count[sorted_items[i]]>>]
                      \o <<<<"TOTAL", total_unique_patients>>>>]

\* len(location_payer_data[location].get(payor, set()))
CellCount(location_payer_data, location, payor) ==
    IF payor \in DOMAIN location_payer_data[location]
    THEN Cardinality(location_payer_data[location][payor])
    ELSE 0

\* Faulty variant: the number of distinct patients of the location, whatever their payor
LocationTotalUnion(location_payer_data, location) ==
    Cardinality(UNION {location_payer_data[location][payor] :
                          payor \in DOMAIN location_payer_data[location]})

\* sum(len(patients) for patients in payors.values())
LocationTotal(location_payer_data, location) ==
    LET payors == SortedStrs(DOMAIN location_payer_data[location])
    IN  SumSeq([i \in 1..Len(payors) |-> CellCount(location_payer_data, location, payors[i])])

\* generate_hierarchical_report with sort_by='location': per location its
\* header line and its payor lines, then the grand total
generate_hierarchical_report(location_payer_data) ==
    IF DOMAIN location_payer_data = {} THEN NoReport
    ELSE LET sorted_locations == SortedStrs(DOMAIN location_payer_data)
             n == Len(sorted_locations)
             PayorCounts(location) ==
                 [payor \in DOMAIN location_payer_data[location] |->
                      Cardinality(location_payer_data[location][payor])]
             Section(location) ==
                 LET counts == PayorCounts(location)
                     sorted_payors == SortedByCount(counts, DOMAIN counts)
                 IN  [location |-> location,
                      total |-> LocationTotal(location_payer_data, location),
                      payors |-> [j \in 1..Len(sorted_payors) |->
                                      <<sorted_payors[j], counts[sorted_payors[j]]>>]]
             sections == [i \in 1..n |-> Section(sorted_locations[i])]
         IN  [nodata |-> FALSE,
              console |-> sections,
              grand_total |-> SumSeq([i \in 1..n |-> sections[i].total]),
              txt |-> <<>>, csv |-> <<>>]

\* The console matrix shows at most this many payor columns, each name cut
\* to PayorNameWidth characters
ConsolePayors == 5
PayorNameWidth == 12

\* Faulty variant: column totals that count a patient once per payor however many locations
\* the patient was seen at
SummaryPayorTotalsDistinct(location_payer_data, sorted_locations, sorted_payors) ==
    [j \in 1..Len(sorted_payors) |->
        Cardinality(UNION {
            IF sorted_payors[j] \in DOMAIN location_payer_data[sorted_locations[i]]
            THEN location_payer_data[sorted_locations[i]][sorted_payors[j]]
            ELSE {} : i \in 1..Len(sorted_locations)})]

\* payor_total of each payor, in the order of sorted_payors
SummaryPayorTotals(location_payer_data, sorted_locations, sorted_payors) ==
    [j \in 1..Len(sorted_payors) |->
        SumSeq([i \in 1..Len(sorted_locations) |->
            CellCount(location_payer_data, sorted_locations[i], sorted_payors[j])])]

\* Faulty variant: the marker also when the payors just fill the columns
MoreMarkerAtLimit(np) == IF np >= ConsolePayors THEN <<"...">> ELSE <<>>

\* if len(sorted_payors) > 5: header += "  ..." (and the same on every row)
MoreMarker(np) == IF np > ConsolePayors THEN <<"...">> ELSE <<>>

\* Faulty variant: a row with cells only for the payors the location has
SummaryCountsPresent(location_payer_data, location, sorted_payors) ==
    LET present == SelectSeq(sorted_payors,
                             LAMBDA payor : payor \in DOMAIN location_payer_data[location])
    IN  [j \in 1..Len(present) |-> CellCount(location_payer_data, location, present[j])]

\* The counts of one data row of the matrix: one for every payor of sorted_payors
SummaryCounts(location_payer_data, location, sorted_payors) ==
    [j \in 1..Len(sorted_payors) |->
        CellCount(location_payer_data, location, sorted_payors[j])]

\* generate_summary_report
generate_summary_report(location_payer_data) ==
    LET all_payors == UNION {DOMAIN location_payer_data[l] : l \in DOMAIN location_payer_data}
        sorted_payors == SortedStrs(all_payors)
        sorted_locations == SortedStrs(DOMAIN location_payer_data)
        np == Len(sorted_payors)
        nl == Len(sorted_locations)
        shown == Min(ConsolePayors, np)
        more == MoreMarker(np)
        Counts(location) == SummaryCounts(location_payer_data, location, sorted_payors)
        location_total(location) == SumSeq(Counts(location))
        payor_totals == SummaryPayorTotals(location_payer_data, sorted_locations, sorted_payors)
        grand_total == SumSeq(payor_totals)
        Texts(ints) == [j \in 1..Len(ints) |-> ToString(ints[j])]
    IN  [nodata |-> FALSE,
         console |->
             <<<<"Location">>
                 \o [j \in 1..shown |-> Prefix(sorted_payors[j], PayorNameWidth)] \o more>>
             \o [i \in 1..nl |->
                    <<sorted_locations[i]>>
                    \o [j \in 1..shown |->
                           ToString(CellCount(location_payer_data, sorted_locations[i],
                                              sorted_payors[j]))]
                    \o more],
         txt |->
             <<<<"Location">> \o sorted_payors \o <<"Total">>>>
             \o [i \in 1..nl |->
                    <<sorted_locations[i]>> \o Texts(Counts(sorted_locations[i]))
                    \o <<ToString(location_total(sorted_locations[i]))>>]
             \o <<<<"TOTAL">> \o Texts(payor_totals) \o <<ToString(grand_total)>>>>,
         csv |->
             <<<<"Location">> \o sorted_payors \o <<"Total">>>>
             \o [i \in 1..nl |->
                    <<sorted_locations[i]>> \o Counts(sorted_locations[i])
                    \o <<location_total(sorted_locations[i])>>]
             \o <<<<"TOTAL">> \o payor_totals \o <<grand_total>>>>]

\* Faulty variant: the target compared as it is spelled
print_unique_client_list_exact(rows, key, target) ==
    SortedStrs({strip(Val(Get(rows[i], "Patient"))) : i \in
        {i \in 1..Len(rows) :
            /\ Truthy(Get(rows[i], key))
            /\ strip(Val(Get(rows[i], key))) = target
            /\ Truthy(Get(rows[i], "Patient"))
            /\ strip(Val(Get(rows[i], "Patient"))) # ""}})

\* print_unique_client_list(data, target) of clientByLocation.py (key
\* "Location") and clientByPayerType.py (key "Payor"): the sorted patients
print_unique_client_list(rows, key, target) ==
    SortedStrs({strip(Val(Get(rows[i], "Patient"))) : i \in
        {i \in 1..Len(rows) :
            /\ Truthy(Get(rows[i], key))
            /\ upper(strip(Val(Get(rows[i], key)))) = upper(target)
            /\ Truthy(Get(rows[i], "Patient"))
            /\ strip(Val(Get(rows[i], "Patient"))) # ""}})

\* Faulty variant: a row is selected when either filter matches
print_unique_client_list_either(rows, target_location, target_payor) ==
    LET location_match(row) ==
            /\ Truthy(Get(row, "Location"))
            /\ upper(strip(Val(Get(row, "Location")))) = upper(target_location)
        payor_match(row) ==
            /\ Truthy(Get(row, "Payor"))
            /\ upper(strip(Val(Get(row, "Payor")))) = upper(Val(target_payor))
        selected(row) ==
            /\ Truthy(Get(row, "Patient"))
            /\ strip(Val(Get(row, "Patient"))) # ""
            /\ IF Truthy(target_payor)
               THEN location_match(row) \/ payor_match(row)
               ELSE location_match(row)
    IN  SortedStrs({strip(Val(Get(rows[i], "Patient"))) : i \in
            {i \in 1..Len(rows) : selected(rows[i])}})

\* print_unique_client_list(data, target_location, target_payor) of
\* clientByLocationAndPayer.py; target_payor is None or a str
print_unique_client_list_combined(rows, target_location, target_payor) ==
    LET location_match(row) ==
            /\ Truthy(Get(row, "Location"))
            /\ upper(strip(Val(Get(row, "Location")))) = upper(target_location)
        payor_match(row) ==
            /\ Truthy(Get(row, "Payor"))
            /\ upper(strip(Val(Get(row, "Payor")))) = upper(Val(target_payor))
        selected(row) ==
            /\ Truthy(Get(row, "Patient"))
            /\ strip(Val(Get(row, "Patient"))) # ""
            /\ IF Truthy(target_payor)
               THEN location_match(row) /\ payor_match(row)
               ELSE location_match(row)
    IN  SortedStrs({strip(Val(Get(rows[i], "Patient"))) : i \in
            {i \in 1..Len(rows) : selected(rows[i])}})

(***************************************************************************)
(* telemedPercentage.py                                                    *)
(***************************************************************************)
\* ', '.join(strs)
RECURSIVE Join(_)
Join(strs) ==
    IF strs = <<>> THEN ""
    ELSE IF Len(strs) = 1 THEN strs[1]
    ELSE strs[1] \o ", " \o Join(Tail(strs))

\* The row makes process_okc_telemedicine_percentage raise AttributeError
OkcRowRaises(row) ==
    \/ StripRaises(row, "Location")
    \/ StripRaises(row, "Patient")
    \/ StripRaises(row, "Service")
    \/ /\ upper(Field(row, "Location")) = "OKC"
       /\ Field(row, "Patient") # ""
       /\ StripRaises(row, "Payor")

NewStats == [total_visits |-> 0, telemed_visits |-> 0, percentage |-> Pct(0, 0),
             payors |-> {}, services |-> {}]

\* Faulty variant: a loop turn that counts a visit as a telemedicine visit only when the
\* service is spelled in lower case
OkcStepCaseSensitive(patient_stats, row) ==
    LET location == Field(row, "Location")
        patient == Field(row, "Patient")
        service == Field(row, "Service")
        payor == Field(row, "Payor")
        old == IF patient \in DOMAIN patient_stats.of THEN patient_stats.of[patient]
               ELSE NewStats
    IN  IF upper(location) = "OKC" /\ patient # ""
        THEN PutOrdered(patient_stats, patient,
                 [old EXCEPT
                    !.total_visits = @ + 1,
                    !.telemed_visits = IF Contains("telemedicine", service) THEN @ + 1 ELSE @,
                    !.payors = IF payor # "" THEN @ \cup {payor} ELSE @,
                    !.services = IF service # "" THEN @ \cup {service} ELSE @])
        ELSE patient_stats

\* Faulty variant: a loop turn that makes the patient's entry before it
\* tests the location
OkcStepEntryFirst(patient_stats, row) ==
    LET location == Field(row, "Location")
        patient == Field(row, "Patient")
        service == Field(row, "Service")
        payor == Field(row, "Payor")
        entered == IF patient # "" /\ patient \notin DOMAIN patient_stats.of
                   THEN PutOrdered(patient_stats, patient, NewStats)
                   ELSE patient_stats
    IN  IF upper(location) = "OKC" /\ patient # ""
        THEN PutOrdered(entered, patient,
                 [entered.of[patient] EXCEPT
                    !.total_visits = @ + 1,
                    !.telemed_visits =
                        IF Contains("telemedicine", lower(service)) THEN @ + 1 ELSE @,
                    !.payors = IF payor # "" THEN @ \cup {payor} ELSE @,
                    !.services = IF service # "" THEN @ \cup {service} ELSE @])
        ELSE entered

\* One turn of the loop of process_okc_telemedicine_percentage
OkcStep(patient_stats, row) ==
    LET location == Field(row, "Location")
        patient == Field(row, "Patient")
        service == Field(row, "Service")
        payor == Field(row, "Payor")
        old == IF patient \in DOMAIN patient_stats.of THEN patient_stats.of[patient]
               ELSE NewStats
    IN  IF upper(location) = "OKC" /\ patient # ""
        THEN PutOrdered(patient_stats, patient,
                 [old EXCEPT
                    !.total_visits = @ + 1,
                    !.telemed_visits =
                        IF Contains("telemedicine", lower(service)) THEN @ + 1 ELSE @,
                    !.payors = IF payor # "" THEN @ \cup {payor} ELSE @,
                    !.services = IF service # "" THEN @ \cup {service} ELSE @])
        ELSE patient_stats

RECURSIVE OkcLoop(_)
OkcLoop(rows) ==
    IF rows = <<>> THEN EmptyOrdered ELSE OkcStep(OkcLoop(Front(rows)), Last(rows))

\* process_okc_telemedicine_percentage: what it raises ("" when it returns)
\* and the dict patient_stats it returns
process_okc_telemedicine_percentage(rows) ==
    IF \E i \in 1..Len(rows) : OkcRowRaises(rows[i])
    THEN [raised |-> "AttributeError", value |-> EmptyOrdered]
    ELSE LET counted == OkcLoop(rows)
         IN  [raised |-> "",
              value |-> [order |-> counted.order,
                         of |-> [patient \in DOMAIN counted.of |->
                                   [counted.of[patient] EXCEPT !.percentage =
                                      IF counted.of[patient].total_visits > 0
                                      THEN Pct(counted.of[patient].telemed_visits,
                                               counted.of[patient].total_visits)
                                      ELSE @]]]]

\* The usage tiers' thresholds, in percent
HighPct == 75
MediumPct == 25

\* stats['percentage'] >= 75, 25 <= ... < 75, 0 < ... < 25, ... == 0
IsHigh(p) == p.num >= HighPct * p.den
\* Faulty variant: 25 < percentage < 75
IsMediumExclusive(p) == MediumPct * p.den < p.num /\ p.num < HighPct * p.den
IsMedium(p) == MediumPct * p.den <= p.num /\ p.num < HighPct * p.den
\* Faulty variant: 0 <= percentage < 25
IsLowInclusive(p) == 0 <= p.num /\ p.num < MediumPct * p.den
IsLow(p) == 0 < p.num /\ p.num < MediumPct * p.den
IsNoTelemed(p) == p.num = 0

\* A cell of the patient table: the text cut to CellCut characters and
\* marked ".." when it is longer than CellWidth
CellWidth == 20
CellCut == 18
DisplayCell(text) == IF Len(text) > CellWidth THEN Prefix(text, CellCut) \o ".." ELSE text

\* sorted(patient_stats.items(),
\*        key=lambda x: (-x[1]['percentage'], -x[1]['telemed_visits'], x[0]))
RECURSIVE SortedByPercentage(_, _)
SortedByPercentage(stats, patients) ==
    IF patients = {} THEN <<>>
    ELSE LET Before(x, y) ==
                 LET px == stats[x].percentage
                     py == stats[y].percentage
                 IN  \/ px.num * py.den > py.num * px.den
                     \/ /\ px.num * py.den = py.num * px.den
                        /\ \/ stats[x].telemed_visits > stats[y].telemed_visits
                           \/ /\ stats[x].telemed_visits = stats[y].telemed_visits
                              /\ StrLess(x, y)
             m == CHOOSE x \in patients : \A y \in patients \ {x} : Before(x, y)
         IN  <<m>> \o SortedByPercentage(stats, patients \ {m})

\* The lines the console shows at most
ConsoleBudget == 40

\* "="*80, "-"*80, "="*70, "-"*70, "-"*50
DoubleRule80 == Repeat("=", 80)
SingleRule80 == Repeat("-", 80)
DoubleRule70 == Repeat("=", 70)
SingleRule70 == Repeat("-", 70)
SingleRule50 == Repeat("-", 50)

\* generate_telemedicine_percentage_report
generate_telemedicine_percentage_report(patient_stats) ==
    LET stats == patient_stats.of
        patients == DOMAIN stats
        sorted_patients == SortedByPercentage(stats, patients)
        n == Len(sorted_patients)
        total_visits_all == SumSeq([i \in 1..n |-> stats[sorted_patients[i]].total_visits])
        total_telemed_all == SumSeq([i \in 1..n |-> stats[sorted_patients[i]].telemed_visits])
        high_users == Cardinality({x \in patients : IsHigh(stats[x].percentage)})
        medium_users == Cardinality({x \in patients : IsMedium(stats[x].percentage)})
        low_users == Cardinality({x \in patients : IsLow(stats[x].percentage)})
        no_telemed == Cardinality({x \in patients : IsNoTelemed(stats[x].percentage)})
        head ==
            << <<DoubleRule80>>,
               <<"TELEMEDICINE USAGE PERCENTAGE REPORT - OKC LOCATION">>,
               <<"Generated: now">>,
               <<DoubleRule80>>,
               <<"Total OKC Patients", ToString(Cardinality(patients))>>,
               <<"Total OKC Visits", ToString(total_visits_all)>>,
               <<"Total Telemedicine Visits", ToString(total_telemed_all)>>,
               <<"Overall Telemedicine Usage",
                 Format1f(Pct(total_telemed_all, total_visits_all)) \o "%">>,
               <<"Usage Distribution:">>,
               <<"High", ToString(high_users)>>,
               <<"Medium", ToString(medium_users)>>,
               <<"Low", ToString(low_users)>>,
               <<"None", ToString(no_telemed)>>,
               <<SingleRule80>>,
               <<"PATIENT DETAILS">>,
               <<SingleRule80>>,
               <<"Patient", "Total", "Telemed", "Percentage", "Payors">>,
               <<SingleRule80>> >>
        payors_str(x) == Join(SortedStrs(stats[x].payors))
        line(x) == <<x, ToString(stats[x].total_visits), ToString(stats[x].telemed_visits),
                     Format1f(stats[x].percentage) \o "%", DisplayCell(payors_str(x))>>
        csv_row(x) == <<x, stats[x].total_visits, stats[x].telemed_visits,
                        Format1f(stats[x].percentage), payors_str(x)>>
        report_lines == head \o [i \in 1..n |-> line(sorted_patients[i])]
                        \o << <<SingleRule80>>, <<DoubleRule80>> >>
        console_lines == head
        tail3 == SubSeq(report_lines, Len(report_lines) - 2, Len(report_lines))
    IN  [nodata |-> FALSE,
         tiers |-> [high |-> high_users, medium |-> medium_users,
                    low |-> low_users, none |-> no_telemed],
         console |-> IF Len(console_lines) > ConsoleBudget
                     THEN SubSeq(console_lines, 1, ConsoleBudget)
                          \o << <<"... (see full report in file)">> >> \o tail3
                     ELSE console_lines \o tail3,
         txt |-> report_lines,
         csv |-> << <<"Patient", "Total_Visits", "Telemed_Visits", "Percentage", "Payors">> >>
                 \o [i \in 1..n |-> csv_row(sorted_patients[i])]]

\* print_telemedicine_insights: the lines it prints for the patients who
\* used only telemedicine and for those with at least HighVolume
\* telemedicine visits (list.sort is stable: equal counts keep the dict's order)
HighVolume == 5
TopUsers == 5

print_telemedicine_insights(patient_stats) ==
    LET stats == patient_stats.of
        telemed == [x \in DOMAIN stats |-> stats[x].telemed_visits]
        exclusive_telemed == {x \in DOMAIN stats :
            stats[x].percentage.num = 100 * stats[x].percentage.den
            /\ stats[x].total_visits > 0}
        high_volume == SelectSeq(patient_stats.order, LAMBDA x : telemed[x] >= HighVolume)
        exclusive == Prefix(SortedStrs(exclusive_telemed), TopUsers)
        volume == Prefix(StableByCountDesc(high_volume, telemed), TopUsers)
    IN  [nodata |-> DOMAIN stats = {},
         console |-> [i \in 1..Len(exclusive) |->
                         <<exclusive[i], ToString(stats[exclusive[i]].total_visits)>>]
                     \o [i \in 1..Len(volume) |->
                         <<volume[i], ToString(telemed[volume[i]]),
                           Format1f(stats[volume[i]].percentage) \o "%">>],
         txt |-> <<>>, csv |-> <<>>]

(***************************************************************************)
(* telemedSort.py                                                          *)
(***************************************************************************)
TelemedStart == [total_count |-> 0, patient_details |-> EmptyOrdered,
                 location_summary |-> EmptyDict, payor_summary |-> EmptyDict]

\* Faulty variant: a loop turn that counts the service only when the row
\* names a patient
TelemedStepCountingPatients(acc, row) ==
    LET service == Val(GetOrEmpty(row, "Service"))
        patient == GetOrEmpty(row, "Patient")
        location == GetOrEmpty(row, "Location")
        payor == GetOrEmpty(row, "Payor")
        hasPatient == Truthy(patient) /\ strip(Val(patient)) # ""
        hasLocation == Truthy(location) /\ strip(Val(location)) # ""
        hasPayor == Truthy(payor) /\ strip(Val(payor)) # ""
        name == strip(Val(patient))
        old == IF name \in DOMAIN acc.patient_details.of THEN acc.patient_details.of[name]
               ELSE [count |-> 0, locations |-> {}, payors |-> {}]
        Bump(d, k) == Put(d, k, (IF k \in DOMAIN d THEN d[k] ELSE 0) + 1)
    IN  IF Contains("telemedicine", lower(service))
        THEN [total_count |-> acc.total_count + (IF hasPatient THEN 1 ELSE 0),
              patient_details |->
                  IF hasPatient
                  THEN PutOrdered(acc.patient_details, name,
                           [count |-> old.count + 1,
                            locations |-> IF hasLocation
                                          THEN old.locations \cup {strip(Val(location))}
                                          ELSE old.locations,
                            payors |-> IF hasPayor THEN old.payors \cup {strip(Val(payor))}
                                       ELSE old.payors])
                  ELSE acc.patient_details,
              location_summary |-> IF hasLocation
                                   THEN Bump(acc.location_summary, strip(Val(location)))
                                   ELSE acc.location_summary,
              payor_summary |-> IF hasPayor THEN Bump(acc.payor_summary, strip(Val(payor)))
                                ELSE acc.payor_summary]
        ELSE acc

\* One turn of the loop of process_telemedicine_data
TelemedStep(acc, row) ==
    LET service == Val(GetOrEmpty(row, "Service"))
        patient == GetOrEmpty(row, "Patient")
        location == GetOrEmpty(row, "Location")
        payor == GetOrEmpty(row, "Payor")
        hasPatient == Truthy(patient) /\ strip(Val(patient)) # ""
        hasLocation == Truthy(location) /\ strip(Val(location)) # ""
        hasPayor == Truthy(payor) /\ strip(Val(payor)) # ""
        name == strip(Val(patient))
        old == IF name \in DOMAIN acc.patient_details.of THEN acc.patient_details.of[name]
               ELSE [count |-> 0, locations |-> {}, payors |-> {}]
        Bump(d, k) == Put(d, k, (IF k \in DOMAIN d THEN d[k] ELSE 0) + 1)
    IN  IF Contains("telemedicine", lower(service))
        THEN [total_count |-> acc.total_count + 1,
              patient_details |->
                  IF hasPatient
                  THEN PutOrdered(acc.patient_details, name,
                           [count |-> old.count + 1,
                            locations |-> IF hasLocation
                                          THEN old.locations \cup {strip(Val(location))}
                                          ELSE old.locations,
                            payors |-> IF hasPayor THEN old.payors \cup {strip(Val(payor))}
                                       ELSE old.payors])
                  ELSE acc.patient_details,
              location_summary |-> IF hasLocation
                                   THEN Bump(acc.location_summary, strip(Val(location)))
                                   ELSE acc.location_summary,
              payor_summary |-> IF hasPayor THEN Bump(acc.payor_summary, strip(Val(payor)))
                                ELSE acc.payor_summary]
        ELSE acc

RECURSIVE TelemedLoop(_)
TelemedLoop(rows) ==
    IF rows = <<>> THEN TelemedStart ELSE TelemedStep(TelemedLoop(Front(rows)), Last(rows))

\* process_telemedicine_data: what it raises ("" when it returns) and the
\* tuple it returns; service.lower() raises AttributeError on a None Service
process_telemedicine_data(rows) ==
    IF \E i \in 1..Len(rows) : StripRaises(rows[i], "Service")
    THEN [raised |-> "AttributeError", value |-> TelemedStart]
    ELSE [raised |-> "", value |-> TelemedLoop(rows)]

\* The first lines of the report that the console shows
ConsoleLines == 50

\* generate_telemedicine_report
generate_telemedicine_report(total_count, patient_details, location_summary, payor_summary) ==
    LET details == patient_details.of
        Count(x) == details[x].count
        counts == [x \in DOMAIN details |-> details[x].count]
        sorted_locations == SortedByCount(location_summary, DOMAIN location_summary)
        sorted_payors == SortedByCount(payor_summary, DOMAIN payor_summary)
        sorted_patients == SortedByCount(counts, DOMAIN counts)
        locations_str(x) == Join(SortedStrs(details[x].locations))
        payors_str(x) == Join(SortedStrs(details[x].payors))
        report_lines ==
            << <<DoubleRule70>>, <<"TELEMEDICINE SERVICE REPORT">>, <<"Generated: now">>,
               <<DoubleRule70>>,
               <<"TOTAL TELEMEDICINE SERVICES", ToString(total_count)>>,
               <<"UNIQUE PATIENTS USING TELEMEDICINE", ToString(Cardinality(DOMAIN details))>>,
               <<SingleRule50>>, <<"TELEMEDICINE BY LOCATION">>, <<SingleRule50>>,
               <<"Location", "Count">>, <<SingleRule50>> >>
            \o [i \in 1..Len(sorted_locations) |->
                   <<sorted_locations[i], ToString(location_summary[sorted_locations[i]])>>]
            \o << <<SingleRule50>>, <<"TELEMEDICINE BY PAYOR">>, <<SingleRule50>>,
                  <<"Payor", "Count">>, <<SingleRule50>> >>
            \o [i \in 1..Len(sorted_payors) |->
                   <<sorted_payors[i], ToString(payor_summary[sorted_payors[i]])>>]
            \o << <<SingleRule50>>, <<"PATIENT TELEMEDICINE USAGE DETAILS">>, <<SingleRule50>>,
                  <<"Patient", "Count", "Location(s)", "Payor(s)">>, <<SingleRule70>> >>
            \o [i \in 1..Len(sorted_patients) |->
                   <<sorted_patients[i], ToString(Count(sorted_patients[i])),
                     DisplayCell(locations_str(sorted_patients[i])),
                     DisplayCell(payors_str(sorted_patients[i]))>>]
            \o << <<SingleRule70>>, <<DoubleRule70>> >>
    IN  [nodata |-> FALSE,
         console |-> Prefix(report_lines, ConsoleLines),
         txt |-> report_lines,
         csv |-> << <<"Patient", "Telemedicine_Count", "Locations", "Payors">> >>
                 \o [i \in 1..Len(sorted_patients) |->
                        <<sorted_patients[i], Count(sorted_patients[i]),
                          locations_str(sorted_patients[i]), payors_str(sorted_patients[i])>>]]

\* print_telemedicine_summary: the top users it lists
print_telemedicine_summary(total_count, patient_details) ==
    LET details == patient_details.of
        counts == [x \in DOMAIN details |-> details[x].count]
        top_users == Prefix(StableByCountDesc(patient_details.order, counts), TopUsers)
    IN  [nodata |-> patient_details.order = <<>>,
         console |-> [i \in 1..Len(top_users) |->
                         <<top_users[i], ToString(counts[top_users[i]])>>],
         txt |-> <<>>, csv |-> <<>>]

(***************************************************************************)
(* main().  Each script's main() ends the process with status 1 when it    *)
(* has no path argument or cannot open the file, and otherwise runs its    *)
(* stages inside one try block whose `except Exception` handler prints     *)
(* the error and ends the process with status 1.                           *)
(***************************************************************************)
ClientScripts == {"clientByLocation", "clientByPayerType", "clientByLocationAndPayer"}
OneKeyScripts == {"clientByLocation", "clientByPayerType"}
Scripts == ClientScripts \cup {"telemedPercentage", "telemedSort"}

Pool(s) ==
    CASE s \in ClientScripts -> ClientPool
      [] s = "telemedPercentage" -> OkcPool
      [] OTHER -> TelemedPool

MaxLen(s) ==
    CASE s \in ClientScripts -> MaxRows
      [] s = "telemedPercentage" -> MaxOkcVisits
      [] OTHER -> MaxVisits

\* The column a one-key script groups by
KeyOf(s) == IF s = "clientByLocation" THEN "Location" ELSE "Payor"

\* The target main() passes to print_unique_client_list
TargetOf(s) == IF s = "clientByPayerType" THEN "Medicare" ELSE "ARDMORE"

Init ==
    /\ script \in Scripts
    /\ source \in {"no_arg", "missing", "ok"}
    /\ failing = {}
    /\ data \in IF source = "ok" THEN SeqsUpTo(Pool(script), MaxLen(script)) ELSE {<<>>}
    /\ pc = "start"
    /\ exit_status = "running"
    /\ stages = <<>>
    /\ agg = <<>>
    /\ gaps = <<>>
    /\ report = <<>>
    /\ files = EmptyDict
    /\ console = <<>>

\* Faulty variant: the message is printed and main() returns, so that the
\* process ends with status 0
PrintAndReturn(message) ==
    /\ pc' = "done"
    /\ exit_status' = "exit0"
    /\ console' = Append(console, <<message>>)

\* sys.exit(1), from the argument check or from an except handler
Exit1(message) ==
    /\ pc' = "done"
    /\ exit_status' = "exit1"
    /\ console' = Append(console, <<message>>)

\* sys.exit(1) from the except handler of a stage that printed `lines` first
Exit1Printing(lines, message) ==
    /\ pc' = "done"
    /\ exit_status' = "exit1"
    /\ console' = console \o lines \o << <<message>> >>

\* A stage returned: main() goes on to the stage `next`
Continue(stage, next) ==
    /\ pc' = next
    /\ stages' = Append(stages, stage)
    /\ exit_status' = IF next = "done" THEN "exit0" ELSE exit_status

\* Faulty variant: one try block around both files, so that the csv file is
\* given up when the txt file cannot be opened
WrittenTogether(prefix, rep) ==
    IF "txt" \in failing THEN files
    ELSE IF "csv" \in failing THEN Put(files, prefix \o ".txt", rep.txt)
    ELSE Put(Put(files, prefix \o ".txt", rep.txt), prefix \o ".csv", rep.csv)

\* The two try blocks that write a report's txt and csv files
Written(prefix, rep) ==
    LET withTxt == IF "txt" \in failing THEN files
                   ELSE Put(files, prefix \o ".txt", rep.txt)
    IN  IF "csv" \in failing THEN withTxt ELSE Put(withTxt, prefix \o ".csv", rep.csv)

\* The file name the usage message gives: clientByPayerType.py calls itself
\* clientByPayor.py
ProgramName(s) == IF s = "clientByPayerType" THEN "clientByPayor" ELSE s

\* if len(sys.argv) < 2: print usage, sys.exit(1)
Usage ==
    /\ pc = "start" /\ source = "no_arg"
    /\ Exit1("Usage: python " \o ProgramName(script) \o ".py <csv_file_path>")
    /\ UNCHANGED <<script, source, failing, data, stages, agg, gaps, report, files>>

\* dataPath = sys.argv[1]
DataPath == "visits.csv"

\* get_csv_data raises FileNotFoundError
FileNotFound ==
    /\ pc = "start" /\ source = "missing"
    /\ Exit1("Error: File '" \o DataPath \o "' not found.")
    /\ UNCHANGED <<script, source, failing, data, stages, agg, gaps, report, files>>

\* get_csv_data and csv_to_dictionary return the rows
ReadCsv ==
    /\ pc = "start" /\ source = "ok"
    /\ Continue("read", "process")
    /\ UNCHANGED <<script, source, failing, data, agg, gaps, report, files, console>>

\* process_client_by_location / process_client_by_payor /
\* process_client_by_location_and_payer
ProcessClients ==
    /\ pc = "process" /\ script \in ClientScripts
    /\ agg' = <<CASE script = "clientByLocation" -> process_client_by_location(data)
                  [] script = "clientByPayerType" -> process_client_by_payor(data)
                  [] OTHER -> process_client_by_location_and_payer(data)>>
    /\ Continue("process", IF script \in OneKeyScripts THEN "report" ELSE "hierarchical")
    /\ UNCHANGED <<script, source, failing, data, gaps, report, files, console>>

\* print(generate_report(count, sort_by=<the key>, output_prefix))
ReportAlphabetical ==
    /\ pc = "report" /\ script \in OneKeyScripts
    /\ LET rep == generate_report(agg[1], lower(KeyOf(script)), KeyOf(script))
       IN  /\ report' = <<rep>>
           /\ files' = IF rep.nodata THEN files
                       ELSE Written(lower(KeyOf(script)) \o "_summary", rep)
    /\ Continue("report", "report_by_count")
    /\ UNCHANGED <<script, source, failing, data, agg, gaps, console>>

\* print(generate_report(count, sort_by='count', output_prefix + "_by_count"))
ReportByCount ==
    /\ pc = "report_by_count" /\ script \in OneKeyScripts
    /\ LET rep == generate_report(agg[1], "count", KeyOf(script))
       IN  /\ report' = <<rep>>
           /\ files' = IF rep.nodata THEN files
                       ELSE Written(lower(KeyOf(script)) \o "_summary_by_count", rep)
    /\ Continue("report_by_count", "gaps")
    /\ UNCHANGED <<script, source, failing, data, agg, gaps, console>>

\* print(generate_hierarchical_report(location_payer_data, sort_by='location'))
HierarchicalReport ==
    /\ pc = "hierarchical" /\ script = "clientByLocationAndPayer"
    /\ report' = <<generate_hierarchical_report(agg[1])>>
    /\ Continue("hierarchical", "summary")
    /\ UNCHANGED <<script, source, failing, data, agg, gaps, files, console>>

\* print(generate_summary_report(location_payer_data, output_prefix))
SummaryReport ==
    /\ pc = "summary" /\ script = "clientByLocationAndPayer"
    /\ LET rep == generate_summary_report(agg[1])
       IN  /\ report' = <<rep>>
           /\ files' = Written("summary", rep)
    /\ Continue("summary", "gaps")
    /\ UNCHANGED <<script, source, failing, data, agg, gaps, console>>

\* analyze_data_gaps(data, gaps_prefix)
AnalyzeDataGaps ==
    /\ pc = "gaps" /\ script \in ClientScripts
    /\ LET res == IF script = "clientByLocationAndPayer"
                  THEN analyze_data_gaps_combined(data)
                  ELSE analyze_data_gaps(data, KeyOf(script))
       IN  /\ gaps' = res.summary
           /\ IF res.raised # ""
              THEN /\ Exit1Printing(IF script = "clientByLocationAndPayer"
                                      THEN res.console ELSE <<>>,
                                      "Error processing file: " \o res.raised)
                   /\ UNCHANGED <<stages, files>>
              ELSE /\ Continue("gaps", "client_list")
                   /\ files' = IF "txt" \in failing THEN files
                               ELSE Put(files, "data_gaps_" \o lower(KeyOf(script)) \o ".txt",
                                        res.txt)
                   /\ UNCHANGED console
    /\ UNCHANGED <<script, source, failing, data, agg, report>>

\* print_unique_client_list(data, <target>)
PrintUniqueClientList ==
    /\ pc = "client_list" /\ script \in ClientScripts
    /\ LET patients == IF script = "clientByLocationAndPayer"
                       THEN print_unique_client_list_combined(data, TargetOf(script), None)
                       ELSE print_unique_client_list(data, KeyOf(script), TargetOf(script))
       IN  report' = <<[nodata |-> patients = <<>>,
                        console |-> [i \in 1..Len(patients) |-> <<patients[i]>>],
                        txt |-> <<>>, csv |-> <<>>]>>
    /\ Continue("client_list", "done")
    /\ UNCHANGED <<script, source, failing, data, agg, gaps, files, console>>

\* process_okc_telemedicine_percentage, and the sys.exit(0) of main() when
\* it finds no patient
ProcessOkc ==
    /\ pc = "process" /\ script = "telemedPercentage"
    /\ LET res == process_okc_telemedicine_percentage(data)
       IN  IF res.raised # ""
           THEN /\ Exit1("Error processing file: " \o res.raised)
                /\ UNCHANGED <<stages, agg>>
           ELSE IF res.value.order = <<>>
           THEN /\ pc' = "done"
                /\ exit_status' = "exit0"
                /\ stages' = Append(stages, "process")
                /\ agg' = <<res.value>>
                /\ console' = Append(console, <<"No patients found at OKC location.">>)
           ELSE /\ agg' = <<res.value>>
                /\ Continue("process", "report")
                /\ UNCHANGED console
    /\ UNCHANGED <<script, source, failing, data, gaps, report, files>>

\* report = generate_telemedicine_percentage_report(patient_stats, output_prefix)
\* print(report)
PercentageReport ==
    /\ pc = "report" /\ script = "telemedPercentage"
    /\ LET rep == generate_telemedicine_percentage_report(agg[1])
       IN  /\ report' = <<rep>>
           /\ files' = Written("okc_telemed_percentage", rep)
    /\ Continue("report", "insights")
    /\ UNCHANGED <<script, source, failing, data, agg, gaps, console>>

\* print_telemedicine_insights(patient_stats)
Insights ==
    /\ pc = "insights" /\ script = "telemedPercentage"
    /\ console' = console \o print_telemedicine_insights(agg[1]).console
    /\ Continue("insights", "done")
    /\ UNCHANGED <<script, source, failing, data, agg, gaps, report, files>>

\* process_telemedicine_data
ProcessTelemedicine ==
    /\ pc = "process" /\ script = "telemedSort"
    /\ LET res == process_telemedicine_data(data)
       IN  IF res.raised # ""
           THEN /\ Exit1("Error processing file: " \o res.raised)
                /\ UNCHANGED <<stages, agg>>
           ELSE /\ agg' = <<res.value>>
                /\ Continue("process", "report")
                /\ UNCHANGED console
    /\ UNCHANGED <<script, source, failing, data, gaps, report, files>>

\* report = generate_telemedicine_report(total_count, patient_details,
\*                                       location_summary, payor_summary, output_prefix)
TelemedicineReport ==
    /\ pc = "report" /\ script = "telemedSort"
    /\ LET rep == generate_telemedicine_report(agg[1].total_count, agg[1].patient_details,
                                               agg[1].location_summary, agg[1].payor_summary)
       IN  /\ report' = <<rep>>
           /\ files' = Written("telemedicine", rep)
    /\ Continue("report", "summary")
    /\ UNCHANGED <<script, source, failing, data, agg, gaps, console>>

\* print_telemedicine_summary(total_count, patient_details)
TelemedicineSummary ==
    /\ pc = "summary" /\ script = "telemedSort"
    /\ console' = console
                  \o print_telemedicine_summary(agg[1].total_count,
                                                agg[1].patient_details).console
    /\ Continue("summary", "print")
    /\ UNCHANGED <<script, source, failing, data, agg, gaps, report, files>>

\* print(report)
PrintReport ==
    /\ pc = "print" /\ script = "telemedSort"
    /\ console' = console \o report[1].console
    /\ Continue("print", "done")
    /\ UNCHANGED <<script, source, failing, data, agg, gaps, report, files>>

Next ==
    \/ Usage
    \/ FileNotFound
    \/ ReadCsv
    \/ ProcessClients
    \/ ReportAlphabetical
    \/ ReportByCount
    \/ HierarchicalReport
    \/ SummaryReport
    \/ AnalyzeDataGaps
    \/ PrintUniqueClientList
    \/ ProcessOkc
    \/ PercentageReport
    \/ Insights
    \/ ProcessTelemedicine
    \/ TelemedicineReport
    \/ TelemedicineSummary
    \/ PrintReport

Spec == Init /\ [][Next]_vars

(***************************************************************************)
(* The same runs with output files that cannot be opened, and with files   *)
(* that name more payors than the console matrix has columns for.          *)
(***************************************************************************)
\* The most rows of a file read while a kind of output file fails, and the
\* most payors of a wide file
MaxSinkRows == 2
MaxPayors == 6

PayorNames == <<"Aetna", "BCBS", "Cigna", "Humana", "Medicaid", "Medicare", "Tricare",
                "United">>

\* One row per payor of `payors` (a set of indexes of PayorNames), the last
\* name first, all at OKC; with `second`, one more row at another location
WideRows(payors, second) ==
    LET RECURSIVE Descending(_)
        Descending(S) ==
            IF S = {} THEN <<>>
            ELSE LET m == CHOOSE x \in S : \A y \in S : y <= x
                 IN  <<Row3(Str("OKC"), Str(PayorNames[m]), Str("Ann"))>>
                     \o Descending(S \ {m})
    IN  Descending(payors)
        \o (IF second THEN <<Row3(Str("ARDMORE"), Str(PayorNames[1]), Str("Bob"))>>
            ELSE <<>>)

WideData == {WideRows(payors, second) : payors \in SUBSET (1..MaxPayors),
                                        second \in BOOLEAN}

InitOutputs ==
    /\ script \in Scripts
    /\ source \in {"no_arg", "missing", "ok"}
    /\ failing \in SUBSET {"txt", "csv"}
    /\ data \in IF source = "ok"
                THEN SeqsUpTo(Pool(script), MaxSinkRows)
                     \cup (IF script = "clientByLocationAndPayer" THEN WideData ELSE {})
                ELSE {<<>>}
    /\ pc = "start"
    /\ exit_status = "running"
    /\ stages = <<>>
    /\ agg = <<>>
    /\ gaps = <<>>
    /\ report = <<>>
    /\ files = EmptyDict
    /\ console = <<>>

SpecOutputs == InitOutputs /\ [][Next]_vars

(***************************************************************************)
(* print_unique_client_list called with any target, not only the one       *)
(* main() passes.                                                          *)
(***************************************************************************)
\* The most rows of the data the function is called with
MaxFilterRows == 3

FilterPool ==
    { Row3(Str("OKC"), Str("Medicare"), Str("Ann")),
      Row3(Str(" okc "), Str("Medicare"), Str("Bob")),
      Row3(Str("OKC"), Str("medicare "), Str(" Ann ")),
      Row3(Str("OKC"), Str("Aetna"), Str("Cy")),
      Row3(Str("ARDMORE"), Str("Medicare"), Str("Bob")),
      Row3(Str("OKC"), Str("Medicare"), Str(" ")),
      Row3(Str("OKC"), None, None),
      [Location |-> Str("OKC"), Patient |-> Str("Bob")] }

TargetLocations == {"OKC", "okc", "Ardmore"}
TargetPayors == {"MEDICARE", "Aetna"}

InitFilter ==
    /\ script \in ClientScripts
    /\ source = "ok"
    /\ failing = {}
    /\ data \in SeqsUpTo(FilterPool, MaxFilterRows)
    /\ pc = "client_list"
    /\ exit_status = "running"
    /\ stages = <<>>
    /\ agg = <<>>
    /\ gaps = <<>>
    /\ report = <<>>
    /\ files = EmptyDict
    /\ console = <<>>

\* print_unique_client_list(data, target) and
\* print_unique_client_list(data, target_location, target_payor): the
\* targets of the call are kept with the patients it lists
CallPrintUniqueClientList ==
    /\ pc = "client_list"
    /\ \E target_location \in TargetLocations,
          target_payor \in {None} \cup {Str(t) : t \in TargetPayors} :
          LET target ==
                  CASE script = "clientByLocation" ->
                          [Location |-> Str(target_location), Payor |-> None]
                    [] script = "clientByPayerType" ->
                          [Location |-> None, Payor |-> target_payor]
                    [] OTHER -> [Location |-> Str(target_location), Payor |-> target_payor]
              patients ==
                  CASE script = "clientByLocation" ->
                          print_unique_client_list(data, "Location", target_location)
                    [] script = "clientByPayerType" ->
                          print_unique_client_list(data, "Payor", Val(target_payor))
                    [] OTHER ->
                          print_unique_client_list_combined(data, target_location, target_payor)
          IN  /\ script = "clientByPayerType" => target_payor # None
              /\ report' = <<[nodata |-> patients = <<>>,
                              console |-> [i \in 1..Len(patients) |-> <<patients[i]>>],
                              txt |-> <<>>, csv |-> <<>>, target |-> target]>>
    /\ pc' = "done"
    /\ stages' = Append(stages, "client_list")
    /\ UNCHANGED <<script, source, failing, data, exit_status, agg, gaps, files, console>>

SpecFilter == InitFilter /\ [][CallPrintUniqueClientList]_vars

(***************************************************************************)
(* names_deduplication_script.py: analyze_names called on a text of        *)
(* names, one to a line.                                                   *)
(***************************************************************************)
\* s.strip() for a text of several lines: blanks and line ends are whitespace
RECURSIVE StripWs(_)
StripWs(s) ==
    IF s = "" THEN ""
    ELSE IF CharAt(s, 1) \in {" ", "\n"} THEN StripWs(Rest(s))
    ELSE IF CharAt(s, Len(s)) \in {" ", "\n"} THEN StripWs(SubSeq(s, 1, Len(s) - 1))
    ELSE s

\* s.split('\n')
RECURSIVE SplitLines(_)
SplitLines(s) ==
    IF \E i \in 1..Len(s) : CharAt(s, i) = "\n"
    THEN LET i == CHOOSE i \in 1..Len(s) :
                      CharAt(s, i) = "\n" /\ \A j \in 1..(i - 1) : CharAt(s, j) # "\n"
         IN  <<SubSeq(s, 1, i - 1)>> \o SplitLines(SubSeq(s, i + 1, Len(s)))
    ELSE <<s>>

\* process_names: the tuple (unique_names, total_unique)
process_names(names_text) ==
    LET lines == SplitLines(StripWs(names_text))
        kept == SelectSeq(lines, LAMBDA line : StripWs(line) # "")
        names == [i \in 1..Len(kept) |-> StripWs(kept[i])]
        unique_names == {names[i] : i \in 1..Len(names)}
    IN  [unique_names |-> unique_names, total_unique |-> Cardinality(unique_names)]

\* The names each listing shows at most
ListedNames == 10

Notations == {"INS/MED", "MED/INS", "BCBS/MED"}

\* analyze_names: the numbered lines of the two listings, what it prints
\* before them, and the list it returns
analyze_names(names_text) ==
    LET processed == process_names(names_text)
        sorted_names == SortedStrs(processed.unique_names)
        n == Len(sorted_names)
        names_with_notation ==
            {name \in processed.unique_names :
                \E notation \in Notations : Contains(notation, name)}
        shown == Min(ListedNames, n)
    IN  [unique_names |-> processed.unique_names,
         total_unique |-> processed.total_unique,
         header |-> << <<"Total number of unique names", ToString(processed.total_unique)>>,
                       <<"Number of names with medical/insurance notations",
                         ToString(Cardinality(names_with_notation))>> >>,
         first |-> [i \in 1..shown |-> <<ToString(i), sorted_names[i]>>],
         last |-> [i \in 1..shown |->
                      <<ToString(n - (ListedNames - 1) + (i - 1)),
                        sorted_names[n - shown + i]>>],
         sorted_names |-> sorted_names]

\* The most names of a text
MaxNames == 11

NamePool == <<"Reed, Bobby", "Example, Example", "Abel, Al", "Cole, Bo INS/MED", "Diaz, Cy",
              "Eads, Di", "Ford, Ed", "Gray, Flo", "Hale, Gus", "Ives, Hal", "Jett, Ida",
              "Kerr, Jo">>

\* '\n'.join(lines)
RECURSIVE JoinLines(_)
JoinLines(lines) ==
    IF lines = <<>> THEN ""
    ELSE IF Len(lines) = 1 THEN lines[1]
    ELSE lines[1] \o "\n" \o JoinLines(Tail(lines))

\* A text with the names of `chosen` (indexes of NamePool), the last first;
\* a ragged text indents every line after the first, as the text of the
\* script does, repeats its first name after an empty line and ends with a
\* line end
NameText(chosen, ragged) ==
    LET RECURSIVE Descending(_)
        Descending(S) ==
            IF S = {} THEN <<>>
            ELSE LET m == CHOOSE x \in S : \A y \in S : y <= x
                 IN  <<NamePool[m]>> \o Descending(S \ {m})
        names == Descending(chosen)
        lines == IF ragged /\ names # <<>>
                 THEN <<names[1]>>
                      \o [i \in 1..(Len(names) - 1) |-> "    " \o names[i + 1]]
                      \o <<"", "  " \o names[1] \o " ", "">>
                 ELSE names
    IN  JoinLines(lines)

\* names_text as the script has it
OwnText == "Reed, Bobby\n    Example, Example"

InitNames ==
    /\ script = "names_deduplication_script"
    /\ source = "ok"
    /\ failing \in SUBSET {"txt"}
    /\ data \in {OwnText} \cup {NameText(chosen, ragged) : chosen \in SUBSET (1..MaxNames),
                                                          ragged \in BOOLEAN}
    /\ pc = "analyze_names"
    /\ exit_status = "running"
    /\ stages = <<>>
    /\ agg = <<>>
    /\ gaps = <<>>
    /\ report = <<>>
    /\ files = EmptyDict
    /\ console = <<>>

\* sorted_names = analyze_names(names_text)
AnalyzeNames ==
    /\ pc = "analyze_names"
    /\ LET res == analyze_names(data)
       IN  /\ agg' = <<[unique_names |-> res.unique_names,
                        total_unique |-> res.total_unique]>>
           /\ report' = <<res>>
           /\ console' = console \o res.header
                         \o << <<"First 10 unique names (alphabetically):">> >> \o res.first
                         \o << <<"Last 10 unique names (alphabetically):">> >> \o res.last
    /\ pc' = "save"
    /\ stages' = Append(stages, "analyze_names")
    /\ UNCHANGED <<script, source, failing, data, exit_status, gaps, files>>

\* with open('unique_names.txt', 'w') as f: one line for each name, then the
\* message.  No try block is around it: when the file cannot be opened the
\* exception ends the process with status 1, its traceback on stderr.
SaveUniqueNames ==
    /\ pc = "save"
    /\ pc' = "done"
    /\ IF "txt" \in failing
       THEN /\ exit_status' = "exit1"
            /\ UNCHANGED <<stages, files, console>>
       ELSE /\ exit_status' = "exit0"
            /\ stages' = Append(stages, "save")
            /\ files' = Put(files, "unique_names.txt",
                            [i \in 1..Len(report[1].sorted_names) |->
                                <<report[1].sorted_names[i]>>])
            /\ console' = Append(console,
                                 <<"Unique names have been saved to 'unique_names.txt'">>)
    /\ UNCHANGED <<script, source, failing, data, agg, gaps, report>>

NextNames == AnalyzeNames \/ SaveUniqueNames

SpecNames == InitNames /\ [][NextNames]_vars

(***************************************************************************)
(* What the claims are stated with: the rows and fields as the spec        *)
(* describes them, computed without the aggregators.                       *)
(***************************************************************************)
StageDone(stage) == \E i \in 1..Len(stages) : stages[i] = stage

\* The field is present on the row: set, not None, not blank after trimming
Present(row, key) == key \in DOMAIN row /\ row[key] # None /\ strip(row[key][1]) # ""
Trimmed(row, key) == strip(row[key][1])

\* The indexes of the rows that carry all of `keys` and a Patient
FullRows(rows, keys) ==
    {i \in 1..Len(rows) : Present(rows[i], "Patient") /\ \A k \in keys : Present(rows[i], k)}

\* The distinct trimmed patients of the rows whose trimmed `keys` are `values`
DistinctPatients(rows, keys, values) ==
    {Trimmed(rows[i], "Patient") : i \in
        {i \in FullRows(rows, keys) : \A k \in keys : Trimmed(rows[i], k) = values[k]}}

\* The aggregation function of a client-count script
Aggregate(s, rows) ==
    CASE s = "clientByLocation" -> process_client_by_location(rows)
      [] s = "clientByPayerType" -> process_client_by_payor(rows)
      [] OTHER -> process_client_by_location_and_payer(rows)

Aggregated == script \in ClientScripts /\ agg # <<>>

\* C1: the count reported for a group key is the number of distinct trimmed
\* patients among the rows that carry that trimmed key with every required
\* field present; duplicate rows of one patient under one key count once.
C1_DedupCount ==
    Aggregated =>
        IF script \in OneKeyScripts
        THEN \A i \in FullRows(data, {KeyOf(script)}) :
                LET k == Trimmed(data[i], KeyOf(script))
                IN  /\ k \in DOMAIN agg[1]
                    /\ agg[1][k] = Cardinality(DistinctPatients(data, {KeyOf(script)},
                                                   [x \in {KeyOf(script)} |-> k]))
        ELSE \A i \in FullRows(data, {"Location", "Payor"}) :
                LET l == Trimmed(data[i], "Location")
                    p == Trimmed(data[i], "Payor")
                IN  /\ l \in DOMAIN agg[1]
                    /\ p \in DOMAIN agg[1][l]
                    /\ Cardinality(agg[1][l][p])
                         = Cardinality(DistinctPatients(data, {"Location", "Payor"},
                                           [Location |-> l, Payor |-> p]))

\* Three rows, two of them spelled differently, of one patient under one key:
\* the count is 1
C1_Witness ==
    /\ script = "clientByLocation" /\ agg # <<>>
    /\ Len(data) = 3
    /\ data[1] # data[2]
    /\ \A i \in 1..3 : /\ Present(data[i], "Location") /\ Present(data[i], "Patient")
                       /\ Trimmed(data[i], "Location") = "OKC"
                       /\ Trimmed(data[i], "Patient") = "Ann"
    /\ agg[1] = [k \in {"OKC"} |-> 1]

\* C2: the four partition counts analyze_data_gaps reports sum to total_records.
C2_PartitionSum ==
    gaps # <<>> =>
        gaps[1].has_both + gaps[1].payor_no_location + gaps[1].location_no_payor
            + gaps[1].has_neither = gaps[1].total_records

\* C3: once clientByLocationAndPayer.main has its rows, the hierarchical
\* report, the summary matrix, the data-gaps analysis and the client listing
\* all run, in that order, and the run does not end with a non-zero status.
C3_CombinedRunsEveryStage ==
    script = "clientByLocationAndPayer" /\ source = "ok" /\ pc = "done" =>
        /\ exit_status = "exit0"
        /\ stages = <<"read", "process", "hierarchical", "summary", "gaps", "client_list">>

\* C4: a missing key, a None value or a blank string in Location, Payor,
\* Patient or Service is an absent field and never raises an error.
C4_AbsentFieldNeverRaises ==
    \A i \in 1..Len(console) : console[i] # <<"Error processing file: AttributeError">>

\* C5: in the location-by-payor matrix the per-location row totals and the
\* per-payor column totals both sum to the grand total written where the
\* TOTAL row meets the Total column.
SummaryBuilt ==
    script = "clientByLocationAndPayer" /\ StageDone("summary") /\ ~StageDone("client_list")

C5_TotalsConsistent ==
    SummaryBuilt =>
        LET csv == report[1].csv
            txt == report[1].txt
            totals == Last(csv)
            row_totals == [i \in 1..(Len(csv) - 2) |-> Last(csv[i + 1])]
            column_totals == SubSeq(totals, 2, Len(totals) - 1)
        IN  /\ totals[1] = "TOTAL"
            /\ SumSeq(row_totals) = Last(totals)
            /\ SumSeq(column_totals) = Last(totals)
            /\ Last(Last(txt)) = ToString(Last(totals))
            /\ SumSeq(row_totals)
                 = Cardinality({<<Trimmed(data[i], "Location"), Trimmed(data[i], "Payor"),
                                  Trimmed(data[i], "Patient")>> :
                                    i \in FullRows(data, {"Location", "Payor"})})

\* A matrix of two locations and two payors in which one patient is seen
\* under one payor at both locations
C5_Witness ==
    /\ SummaryBuilt
    /\ Len(report[1].csv) = 4
    /\ Len(report[1].csv[1]) = 4
    /\ Last(Last(report[1].csv)) = 3
    /\ \E j \in 2..3 : Last(report[1].csv)[j] = 2 /\ report[1].csv[2][j] = 1

\* C6: every patient of the percentage report is counted in exactly one
\* usage tier: high from 75%, medium from 25% to below 75%, low above 0% and
\* below 25%, none at 0%; the four tier counts sum to the number of patients.
PercentageReportBuilt == script = "telemedPercentage" /\ StageDone("report")

TierOf(telemed_visits, total_visits) ==
    IF 4 * telemed_visits >= 3 * total_visits THEN "high"
    ELSE IF 4 * telemed_visits >= total_visits THEN "medium"
    ELSE IF telemed_visits > 0 THEN "low"
    ELSE "none"

PatientsInTier(tier) ==
    {x \in DOMAIN agg[1].of :
        TierOf(agg[1].of[x].telemed_visits, agg[1].of[x].total_visits) = tier}

C6_TierPartition ==
    PercentageReportBuilt =>
        LET tiers == report[1].tiers
        IN  /\ tiers.high = Cardinality(PatientsInTier("high"))
            /\ tiers.medium = Cardinality(PatientsInTier("medium"))
            /\ tiers.low = Cardinality(PatientsInTier("low"))
            /\ tiers.none = Cardinality(PatientsInTier("none"))
            /\ tiers.high + tiers.medium + tiers.low + tiers.none
                 = Cardinality(DOMAIN agg[1].of)
            /\ report[1].txt[10] = <<"High", ToString(tiers.high)>>
            /\ report[1].txt[11] = <<"Medium", ToString(tiers.medium)>>
            /\ report[1].txt[12] = <<"Low", ToString(tiers.low)>>
            /\ report[1].txt[13] = <<"None", ToString(tiers.none)>>

\* One patient with one telemedicine visit in five (20%): low
C6_Witness ==
    /\ PercentageReportBuilt
    /\ DOMAIN agg[1].of = {"Ann"}
    /\ agg[1].of["Ann"].total_visits = 5
    /\ agg[1].of["Ann"].telemed_visits = 1
    /\ PatientsInTier("low") = {"Ann"}
    /\ report[1].tiers = [high |-> 0, medium |-> 0, low |-> 1, none |-> 0]
    /\ report[1].txt[12] = <<"Low", "1">>

\* C7: the persisted txt and csv files carry every value in full; no cell
\* of a file is shortened with the ".." marker.
EndsWithMarker(cell) == Len(cell) >= 2 /\ SubSeq(cell, Len(cell) - 1, Len(cell)) = ".."

C7_PersistedInFull ==
    /\ script = "telemedPercentage" /\ "okc_telemed_percentage.txt" \in DOMAIN files =>
          LET txt == files["okc_telemed_percentage.txt"]
              csv == files["okc_telemed_percentage.csv"]
          IN  \A i \in 2..Len(csv) :
                 /\ csv[i][5] = Join(SortedStrs(agg[1].of[csv[i][1]].payors))
                 /\ txt[17 + i][1] = csv[i][1]
                 /\ txt[17 + i][5] = csv[i][5]
                 /\ ~EndsWithMarker(txt[17 + i][5])
    /\ script = "telemedSort" /\ "telemedicine.txt" \in DOMAIN files =>
          LET txt == files["telemedicine.txt"]
              csv == files["telemedicine.csv"]
              first == Len(txt) - Len(csv) - 2
          IN  \A i \in 2..Len(csv) :
                 /\ csv[i][3] = Join(SortedStrs(agg[1].patient_details.of[csv[i][1]].locations))
                 /\ csv[i][4] = Join(SortedStrs(agg[1].patient_details.of[csv[i][1]].payors))
                 /\ txt[first + i][1] = csv[i][1]
                 /\ txt[first + i][3] = csv[i][3]
                 /\ txt[first + i][4] = csv[i][4]

\* A file of the percentage report whose patient has two payors that
\* together are longer than a cell
C7_FailingInput ==
    /\ script = "telemedPercentage" /\ "okc_telemed_percentage.txt" \in DOMAIN files
    /\ "Ann" \in DOMAIN agg[1].of
    /\ agg[1].of["Ann"].payors = {"Medicare", "SoonerCare Choice"}

\* C8: aggregation does not depend on the order of the rows: every
\* permutation of the rows gives the mapping the run computed.
RowOrders(n) == {p \in [1..n -> 1..n] : \A i, j \in 1..n : p[i] = p[j] => i = j}
Permuted(rows, p) == [i \in 1..Len(rows) |-> rows[p[i]]]

C8_OrderIndependent ==
    Aggregated =>
        \A p \in RowOrders(Len(data)) : Aggregate(script, Permuted(data, p)) = agg[1]

\* Two patients under one location and payor, met in some order
C8_Witness ==
    /\ script = "clientByLocationAndPayer" /\ agg # <<>>
    /\ Len(data) = 3
    /\ "OKC" \in DOMAIN agg[1]
    /\ "Medicare" \in DOMAIN agg[1]["OKC"]
    /\ agg[1]["OKC"]["Medicare"] = {"Ann", "Bob"}
    /\ Trimmed(data[1], "Patient") = "Bob"
    /\ Trimmed(data[3], "Patient") = "Ann"

\* C9: a row with a required field missing or blank changes nothing in the
\* aggregation: no outer key, no inner key, no patient is added for it.
RequiredOf(s) == IF s \in OneKeyScripts THEN {KeyOf(s)} ELSE {"Location", "Payor"}

C9_SkippedRowChangesNothing ==
    Aggregated =>
        /\ \A i \in (1..Len(data)) \ FullRows(data, RequiredOf(script)) :
              Aggregate(script, SubSeq(data, 1, i)) = Aggregate(script, SubSeq(data, 1, i - 1))
        /\ Len(data) > 0 /\ Len(data) \notin FullRows(data, RequiredOf(script)) =>
              agg[1] = Aggregate(script, Front(data))
        /\ script = "clientByLocationAndPayer" =>
              /\ DOMAIN agg[1] = {Trimmed(data[i], "Location") :
                                     i \in FullRows(data, {"Location", "Payor"})}
              /\ \A l \in DOMAIN agg[1] :
                    /\ DOMAIN agg[1][l] # {}
                    /\ \A p \in DOMAIN agg[1][l] : agg[1][l][p] # {}

\* A row with a Location and a blank Payor, alone in the file: no entry
C9_Witness ==
    /\ script = "clientByLocationAndPayer" /\ agg # <<>>
    /\ Len(data) = 1
    /\ Present(data[1], "Location") /\ Present(data[1], "Patient")
    /\ "Payor" \in DOMAIN data[1] /\ data[1]["Payor"] # None
    /\ ~Present(data[1], "Payor")
    /\ agg[1] = EmptyDict

\* C10: for each patient, total_visits is the number of rows whose trimmed
\* Location is OKC (any case) and whose trimmed Patient is the patient,
\* telemed_visits the number of those whose Service contains "telemedicine"
\* (any case), percentage telemed_visits / total_visits x 100, printed to
\* one decimal.
OkcProcessed == script = "telemedPercentage" /\ agg # <<>>

OkcRows(rows) ==
    {i \in 1..Len(rows) : /\ Present(rows[i], "Location") /\ Present(rows[i], "Patient")
                          /\ upper(Trimmed(rows[i], "Location")) = "OKC"}
VisitsOf(rows, patient) == {i \in OkcRows(rows) : Trimmed(rows[i], "Patient") = patient}
TelemedVisitsOf(rows, patient) ==
    {i \in VisitsOf(rows, patient) :
        /\ "Service" \in DOMAIN rows[i] /\ rows[i]["Service"] # None
        /\ Contains("TELEMEDICINE", upper(rows[i]["Service"][1]))}

\* The text of `tenths` tenths to one decimal
OneDecimal(tenths) == ToString(tenths \div 10) \o "." \o ToString(tenths % 10)

C10_VisitCounts ==
    OkcProcessed =>
        /\ DOMAIN agg[1].of = {Trimmed(data[i], "Patient") : i \in OkcRows(data)}
        /\ \A x \in DOMAIN agg[1].of :
              LET total == Cardinality(VisitsOf(data, x))
                  telemed == Cardinality(TelemedVisitsOf(data, x))
              IN  /\ agg[1].of[x].total_visits = total
                  /\ agg[1].of[x].telemed_visits = telemed
                  /\ agg[1].of[x].percentage.num * total
                       = 100 * telemed * agg[1].of[x].percentage.den
        /\ StageDone("report") =>
              \A i \in 2..Len(report[1].csv) :
                 LET x == report[1].csv[i][1]
                     total == Cardinality(VisitsOf(data, x))
                     telemed == Cardinality(TelemedVisitsOf(data, x))
                 IN  /\ report[1].csv[i][2] = total
                     /\ report[1].csv[i][3] = telemed
                     /\ \E t \in 0..1000 :
                           /\ 2 * (1000 * telemed - t * total) <= total
                           /\ 2 * (t * total - 1000 * telemed) <= total
                           /\ report[1].csv[i][4] = OneDecimal(t)

\* Three OKC rows of one patient, two of them telemedicine: 3, 2, 66.7%, medium
C10_Witness ==
    /\ OkcProcessed /\ StageDone("report")
    /\ Len(data) = 3
    /\ DOMAIN agg[1].of = {"Ann"}
    /\ agg[1].of["Ann"].total_visits = 3
    /\ agg[1].of["Ann"].telemed_visits = 2
    /\ report[1].csv[2][4] = "66.7"
    /\ report[1].tiers.medium = 1

\* C11: after any prefix of the rows and in the result of
\* process_okc_telemedicine_percentage, every patient of the result has
\* 0 <= telemed_visits <= total_visits and total_visits >= 1.
VisitsInRange(stats) ==
    \A x \in DOMAIN stats :
        /\ 0 <= stats[x].telemed_visits
        /\ stats[x].telemed_visits <= stats[x].total_visits
        /\ stats[x].total_visits >= 1

C11_VisitsInRange ==
    OkcProcessed =>
        /\ VisitsInRange(agg[1].of)
        /\ \A i \in 0..Len(data) : VisitsInRange(OkcLoop(SubSeq(data, 1, i)).of)

\* A patient seen at OKC once without telemedicine, after a row of the same
\* patient at another location
C11_Witness ==
    /\ OkcProcessed
    /\ Len(data) = 2
    /\ upper(Field(data[1], "Location")) # "OKC" /\ Field(data[1], "Patient") = "Ann"
    /\ DOMAIN agg[1].of = {"Ann"}
    /\ agg[1].of["Ann"].total_visits = 1
    /\ agg[1].of["Ann"].telemed_visits = 0

\* C12: a patient whose visits are all telemedicine has percentage exactly
\* 100 and is counted high; a patient without a telemedicine visit has
\* percentage exactly 0 and is counted none, and in no other tier.
AllTelemed(stats) ==
    {x \in DOMAIN stats : stats[x].telemed_visits = stats[x].total_visits
                          /\ stats[x].total_visits > 0}
NoneTelemed(stats) == {x \in DOMAIN stats : stats[x].telemed_visits = 0}

C12_BoundaryTiers ==
    PercentageReportBuilt =>
        LET stats == agg[1].of
            tiers == report[1].tiers
            csv == report[1].csv
        IN  /\ \A x \in AllTelemed(stats) :
                  /\ stats[x].percentage.num = 100 * stats[x].percentage.den
                  /\ IsHigh(stats[x].percentage)
                  /\ ~IsMedium(stats[x].percentage) /\ ~IsLow(stats[x].percentage)
                  /\ ~IsNoTelemed(stats[x].percentage)
            /\ \A x \in NoneTelemed(stats) :
                  /\ stats[x].percentage.num = 0
                  /\ IsNoTelemed(stats[x].percentage)
                  /\ ~IsHigh(stats[x].percentage) /\ ~IsMedium(stats[x].percentage)
                  /\ ~IsLow(stats[x].percentage)
            /\ tiers.none = Cardinality(NoneTelemed(stats))
            /\ tiers.high >= Cardinality(AllTelemed(stats))
            /\ tiers.high + tiers.medium + tiers.low
                 = Cardinality(DOMAIN stats \ NoneTelemed(stats))
            /\ \A i \in 2..Len(csv) :
                  /\ csv[i][1] \in AllTelemed(stats) => csv[i][4] = "100.0"
                  /\ csv[i][1] \in NoneTelemed(stats) => csv[i][4] = "0.0"

\* One patient with telemedicine visits only and one with none
C12_Witness ==
    /\ PercentageReportBuilt
    /\ AllTelemed(agg[1].of) = {"Bob"}
    /\ NoneTelemed(agg[1].of) = {"Ann"}
    /\ report[1].tiers = [high |-> 1, medium |-> 0, low |-> 0, none |-> 1]

\* C13: on two rows, one with the Payor alone (Location absent) and one with
\* both fields, analyze_data_gaps reports payor_no_location 1, has_both 1,
\* location_no_payor 0, has_neither 0 and the percentages 50, 50, 0, 0.
PctIs(p, value) == p.num = value * p.den

PayorAlone(row) == ~Present(row, "Location") /\ Present(row, "Payor")
BothPresent(row) == Present(row, "Location") /\ Present(row, "Payor")

C13_TwoRowExample ==
    /\ script \in OneKeyScripts /\ gaps # <<>> /\ Len(data) = 2
    /\ \E i, j \in 1..2 : PayorAlone(data[i]) /\ BothPresent(data[j])
    => /\ gaps[1].payor_no_location = 1 /\ PctIs(gaps[1].payor_no_location_pct, 50)
       /\ gaps[1].has_both = 1 /\ PctIs(gaps[1].has_both_pct, 50)
       /\ gaps[1].location_no_payor = 0 /\ PctIs(gaps[1].location_no_payor_pct, 0)
       /\ gaps[1].has_neither = 0 /\ PctIs(gaps[1].has_neither_pct, 0)

\* The two rows of the example with a patient named on both: 1, 1, 0, 0
C13_ExampleReached ==
    /\ script \in OneKeyScripts /\ gaps # <<>> /\ Len(data) = 2
    /\ PayorAlone(data[1]) /\ Present(data[1], "Patient")
    /\ BothPresent(data[2]) /\ Present(data[2], "Patient")
    /\ gaps[1].payor_no_location = 1 /\ gaps[1].has_both = 1

\* C14: the percentage of each of the four partitions is the number of rows
\* of the partition over the number of rows, times 100, and 0 for each when
\* there are no rows.
LocationAlone(row) == Present(row, "Location") /\ ~Present(row, "Payor")
NeitherPresent(row) == ~Present(row, "Location") /\ ~Present(row, "Payor")

\* The rows of each partition
PartitionRows(rows, partition) ==
    {i \in 1..Len(rows) :
        CASE partition = "has_both" -> BothPresent(rows[i])
          [] partition = "payor_no_location" -> PayorAlone(rows[i])
          [] partition = "location_no_payor" -> LocationAlone(rows[i])
          [] OTHER -> NeitherPresent(rows[i])}

PctOfRows(p, rows, partition) ==
    IF Len(rows) = 0 THEN p.num = 0
    ELSE p.num * Len(rows) = 100 * Cardinality(PartitionRows(rows, partition)) * p.den

C14_PartitionPercentages ==
    gaps # <<>> =>
        /\ PctOfRows(gaps[1].has_both_pct, data, "has_both")
        /\ PctOfRows(gaps[1].payor_no_location_pct, data, "payor_no_location")
        /\ PctOfRows(gaps[1].location_no_payor_pct, data, "location_no_payor")
        /\ PctOfRows(gaps[1].has_neither_pct, data, "has_neither")

\* No rows at all: the four percentages are 0 and nothing is raised
C14_EmptyInput ==
    /\ gaps # <<>> /\ data = <<>>
    /\ gaps[1].total_records = 0
    /\ gaps[1].has_both_pct.num = 0 /\ gaps[1].payor_no_location_pct.num = 0
    /\ gaps[1].location_no_payor_pct.num = 0 /\ gaps[1].has_neither_pct.num = 0

\* C15: each breakdown the combined analyze_data_gaps lists (payors with
\* patients missing a location, locations with patients missing a payor) is
\* in descending order of distinct patients, equal counts in ascending
\* alphabetical order of the payor or location.
PatientsMissing(rows, kind, name) ==
    {Trimmed(rows[i], "Patient") : i \in
        {i \in 1..Len(rows) :
            /\ Present(rows[i], "Patient")
            /\ IF kind = "payor"
               THEN PayorAlone(rows[i]) /\ Trimmed(rows[i], "Payor") = name
               ELSE LocationAlone(rows[i]) /\ Trimmed(rows[i], "Location") = name}}

BreakdownLines(kind) == SelectSeq(console, LAMBDA line : Len(line) = 3 /\ line[1] = kind)

BreakdownInOrder(kind) ==
    LET lines == BreakdownLines(kind)
    IN  \A i \in 1..Len(lines) : \A j \in (i + 1)..Len(lines) :
            LET ci == Cardinality(PatientsMissing(data, kind, lines[i][2]))
                cj == Cardinality(PatientsMissing(data, kind, lines[j][2]))
            IN  ci > cj \/ (ci = cj /\ StrLess(lines[i][2], lines[j][2]))

C15_BreakdownOrder ==
    script = "clientByLocationAndPayer" /\ pc = "done" =>
        BreakdownInOrder("payor") /\ BreakdownInOrder("location")

\* Two locations, each with one patient whose Payor cell is blank, listed on
\* the console
C15_TwoEqualCounts ==
    /\ script = "clientByLocationAndPayer" /\ pc = "done"
    /\ data = << Row3(Str("OKC"), Str(" "), Str("Bob")),
                 Row3(Str("ARDMORE"), Str(""), Str("Ann")) >>
    /\ Len(BreakdownLines("location")) = 2
    /\ BreakdownLines("location")[1][2] = "OKC"
    /\ BreakdownLines("location")[2][2] = "ARDMORE"
    /\ BreakdownLines("location")[1][3] = "1"
    /\ BreakdownLines("location")[2][3] = "1"

\* C16: in every listing sorted by a metric (the patient rows of the
\* percentage report, the patient rows and the location and payor summaries
\* of the telemedicine report, the top-5 user list), two entries with equal
\* metric values are in ascending alphabetical order of their key.
\* `lines` hold the key in cell 1 and the metric in cell `metric`.  The
\* percentage report sorts by percentage and then by telemedicine visits,
\* both descending: its rows are taken as tied when both are equal.
TiesAlphabetical(lines, metric) ==
    \A i \in 1..Len(lines) : \A j \in (i + 1)..Len(lines) :
        lines[i][metric] = lines[j][metric] => StrLess(lines[i][1], lines[j][1])

TopUsersPrinted == script = "telemedSort" /\ pc = "print"

C16_TieBreakAlphabetical ==
    /\ TopUsersPrinted => TiesAlphabetical(console, 2)
    /\ script = "telemedSort" /\ StageDone("report") =>
          TiesAlphabetical(Tail(report[1].csv), 2)
    /\ PercentageReportBuilt =>
          LET rows == Tail(report[1].csv)
          IN  \A i \in 1..Len(rows) : \A j \in (i + 1)..Len(rows) :
                 rows[i][4] = rows[j][4] /\ rows[i][3] = rows[j][3] =>
                    StrLess(rows[i][1], rows[j][1])

\* Two patients with one telemedicine service each in the top-5 list
C16_TwoEqualUsers ==
    /\ TopUsersPrinted
    /\ Len(console) = 2
    /\ console[1][2] = "1" /\ console[2][2] = "1"

\* C17: generate_report lists its rows in ascending alphabetical order of the
\* key unless sort_by is 'count', and then by descending count with equal
\* counts in ascending alphabetical order; the rows are those of the mapping.
ReportRows(csv) == SubSeq(csv, 2, Len(csv) - 1)

RowsOfMapping(rows, count) ==
    /\ {rows[i][1] : i \in 1..Len(rows)} = DOMAIN count
    /\ Len(rows) = Cardinality(DOMAIN count)
    /\ \A i \in 1..Len(rows) : rows[i][2] = count[rows[i][1]]

Alphabetical(rows) ==
    \A i \in 1..Len(rows) : \A j \in (i + 1)..Len(rows) : StrLess(rows[i][1], rows[j][1])

ByCountThenKey(rows) ==
    \A i \in 1..Len(rows) : \A j \in (i + 1)..Len(rows) :
        \/ rows[i][2] > rows[j][2]
        \/ rows[i][2] = rows[j][2] /\ StrLess(rows[i][1], rows[j][1])

SummaryFile(s) == lower(KeyOf(s)) \o "_summary.csv"
ByCountFile(s) == lower(KeyOf(s)) \o "_summary_by_count.csv"

C17_ReportOrder ==
    script \in OneKeyScripts /\ agg # <<>> =>
        /\ SummaryFile(script) \in DOMAIN files =>
              /\ RowsOfMapping(ReportRows(files[SummaryFile(script)]), agg[1])
              /\ Alphabetical(ReportRows(files[SummaryFile(script)]))
        /\ ByCountFile(script) \in DOMAIN files =>
              /\ RowsOfMapping(ReportRows(files[ByCountFile(script)]), agg[1])
              /\ ByCountThenKey(ReportRows(files[ByCountFile(script)]))
        /\ \A sort_by \in {"name", "Count", ""} :
              generate_report(agg[1], sort_by, KeyOf(script)).csv
                = generate_report(agg[1], lower(KeyOf(script)), KeyOf(script)).csv

\* Two keys: the one with most patients is last in the alphabet
C17_Witness ==
    /\ script = "clientByLocation" /\ ByCountFile(script) \in DOMAIN files
    /\ \A i \in 1..Len(data) : DOMAIN data[i] = {"Location", "Payor", "Patient"}
    /\ ReportRows(files[ByCountFile(script)])
         = << <<"OKC", 2>>, <<"ARDMORE", 1>> >>
    /\ ReportRows(files[SummaryFile(script)])
         = << <<"ARDMORE", 1>>, <<"OKC", 2>> >>

\* C18: in the two-dimension reports the total of a location is the sum over
\* its payors of the number of distinct patients under the payor: a patient
\* seen under k payors at the location adds k to the location's total and
\* to the grand total.
\* The distinct (payor, patient) pairs of the complete rows of a location
PayorPatientPairs(rows, location) ==
    {<<Trimmed(rows[i], "Payor"), Trimmed(rows[i], "Patient")>> : i \in
        {i \in FullRows(rows, {"Location", "Payor"}) :
            Trimmed(rows[i], "Location") = location}}

AllPairs(rows) ==
    {<<Trimmed(rows[i], "Location"), Trimmed(rows[i], "Payor"), Trimmed(rows[i], "Patient")>> :
        i \in FullRows(rows, {"Location", "Payor"})}

HierarchicalBuilt ==
    /\ script = "clientByLocationAndPayer" /\ pc = "summary" /\ report # <<>>
    /\ ~report[1].nodata

C18_LocationTotalIsSum ==
    /\ HierarchicalBuilt =>
          /\ \A i \in 1..Len(report[1].console) :
                report[1].console[i].total
                  = Cardinality(PayorPatientPairs(data, report[1].console[i].location))
          /\ report[1].grand_total = Cardinality(AllPairs(data))
    /\ SummaryBuilt =>
          /\ \A i \in 2..(Len(report[1].csv) - 1) :
                Last(report[1].csv[i])
                  = Cardinality(PayorPatientPairs(data, report[1].csv[i][1]))
          /\ Last(Last(report[1].csv)) = Cardinality(AllPairs(data))

\* One patient under two payors at one location: the location's total is 2
C18_Witness ==
    /\ HierarchicalBuilt
    /\ Len(report[1].console) = 1
    /\ report[1].console[1].location = "OKC"
    /\ agg[1]["OKC"] = [payor \in {"Aetna", "Medicare"} |-> {"Ann"}]
    /\ report[1].console[1].total = 2
    /\ report[1].grand_total = 2

\* C19: every rendering of the location-by-payor matrix (console, txt file,
\* csv file) has a totals row and a totals column.
HasTotals(matrix) ==
    /\ Len(matrix) >= 2
    /\ Last(matrix[1]) = "Total"
    /\ Last(matrix)[1] = "TOTAL"

C19_TotalsInEveryRendering ==
    SummaryBuilt =>
        /\ HasTotals(report[1].csv)
        /\ HasTotals(report[1].txt)
        /\ HasTotals(report[1].console)

\* A matrix of one location and one payor, with its totals in both files
C19_FilesHaveTotals ==
    /\ SummaryBuilt
    /\ report[1].csv = << <<"Location", "Medicare", "Total">>, <<"OKC", 1, 1>>,
                          <<"TOTAL", 1, 1>> >>
    /\ HasTotals(report[1].txt)

\* C20: when the report is longer than the console shows, the console string
\* is the first lines of the report up to the budget and then an elision
\* marker; no line of the report is left out of the console without one.
ElisionMarker == <<"... (see full report in file)">>

Shows(shown, line) == \E j \in 1..Len(shown) : shown[j] = line
NothingDropped(shown, full) == \A i \in 1..Len(full) : Shows(shown, full[i])

ElidedAfterBudget(shown, full) ==
    \E n \in 1..Min(ConsoleBudget, Len(full)) :
        /\ Len(shown) > n
        /\ SubSeq(shown, 1, n) = SubSeq(full, 1, n)
        /\ shown[n + 1] = ElisionMarker

TelemedicineReportBuilt == script = "telemedSort" /\ StageDone("report")

C20_ConsoleElision ==
    PercentageReportBuilt \/ TelemedicineReportBuilt =>
        \/ NothingDropped(report[1].console, report[1].txt)
        \/ ElidedAfterBudget(report[1].console, report[1].txt)

\* A percentage report of two patients
C20_TwoPatients ==
    /\ PercentageReportBuilt
    /\ Len(report[1].csv) = 3
    /\ report[1].csv[2][1] = "Ann" /\ report[1].csv[3][1] = "Bob"

\* C21: the console matrix shows the first min(5, P) payors in alphabetical
\* order, P the number of distinct payors; its header and every row end
\* with "..." exactly when P > 5; the txt and csv matrices have all P payors.
PayorsOf(rows) ==
    {Trimmed(rows[i], "Payor") : i \in FullRows(rows, {"Location", "Payor"})}

C21_ConsoleColumns ==
    SummaryBuilt =>
        LET payors == SortedStrs(PayorsOf(data))
            P == Len(payors)
            shown == IF P < 5 THEN P ELSE 5
            matrix == report[1].console
        IN  /\ \A r \in 1..Len(matrix) :
                  /\ Len(matrix[r]) = 1 + shown + (IF P > 5 THEN 1 ELSE 0)
                  /\ (Last(matrix[r]) = "...") <=> (P > 5)
            /\ \A j \in 1..shown : matrix[1][1 + j] = Prefix(payors[j], 12)
            /\ report[1].txt[1] = <<"Location">> \o payors \o <<"Total">>
            /\ report[1].csv[1] = <<"Location">> \o payors \o <<"Total">>
            /\ \A r \in 1..Len(report[1].txt) : Len(report[1].txt[r]) = P + 2
            /\ \A r \in 1..Len(report[1].csv) : Len(report[1].csv[r]) = P + 2

\* A file with six payors: the console shows five and the marker
C21_SixPayors ==
    /\ SummaryBuilt
    /\ Cardinality(PayorsOf(data)) = 6
    /\ report[1].console[1] = <<"Location", "Aetna", "BCBS", "Cigna", "Humana", "Medicaid", "...">>
    /\ Len(report[1].csv[1]) = 8

\* C22: a report built from an aggregation without groups is the "no data
\* found" message: generate_report, generate_hierarchical_report,
\* generate_summary_report and generate_telemedicine_report give the message
\* and write no file when the aggregation is empty.
NoDataOnly == report[1].nodata /\ files = EmptyDict

C22_NoDataMessage ==
    /\ script \in OneKeyScripts /\ StageDone("report") /\ ~StageDone("gaps")
          /\ DOMAIN agg[1] = {} => NoDataOnly
    /\ script = "clientByLocationAndPayer" /\ StageDone("hierarchical")
          /\ DOMAIN agg[1] = {} => NoDataOnly
    /\ script = "telemedSort" /\ StageDone("report")
          /\ agg[1].patient_details.order = <<>> => NoDataOnly

\* The matrix built from a file without rows
C22_EmptyMatrix ==
    /\ script = "clientByLocationAndPayer" /\ data = <<>> /\ pc = "gaps"
    /\ report[1].console = << <<"Location">> >>
    /\ files["summary.csv"] = << <<"Location", "Total">>, <<"TOTAL", 0>> >>

\* C23: the two files of a report fail independently: each is written
\* exactly when its own open() succeeds, whatever happens to the other, and
\* in all four cases the generator returns its console string and main()
\* goes on to the stage that follows.
\* The stages that write a report's files: the file prefix and the next stage
Writers ==
    {[script |-> s, stage |-> "report", prefix |-> lower(KeyOf(s)) \o "_summary",
      next |-> "report_by_count"] : s \in OneKeyScripts}
    \cup {[script |-> s, stage |-> "report_by_count",
           prefix |-> lower(KeyOf(s)) \o "_summary_by_count", next |-> "gaps"] :
              s \in OneKeyScripts}
    \cup {[script |-> "clientByLocationAndPayer", stage |-> "summary", prefix |-> "summary",
           next |-> "gaps"],
          [script |-> "telemedPercentage", stage |-> "report",
           prefix |-> "okc_telemed_percentage", next |-> "insights"],
          [script |-> "telemedSort", stage |-> "report", prefix |-> "telemedicine",
           next |-> "summary"]}

C23_SinksIndependent ==
    [][\A w \in Writers :
          script = w.script /\ pc = w.stage =>
              /\ report' # <<>> /\ report'[1].console # <<>>
              /\ pc' = w.next /\ exit_status' = "running"
              /\ stages' = Append(stages, w.stage)
              /\ \/ script \in OneKeyScripts /\ DOMAIN agg[1] = {}
                 \/ \A kind \in {"txt", "csv"} :
                        /\ (w.prefix \o "." \o kind \in DOMAIN files') <=> (kind \notin failing)
                        /\ kind \notin failing =>
                               files'[w.prefix \o "." \o kind] = report'[1][kind]]_vars

\* The txt file could not be opened and the csv file was written all the same
C23_TxtFailsCsvWritten ==
    /\ script = "clientByLocation" /\ failing = {"txt"} /\ pc = "report_by_count"
    /\ ~report[1].nodata
    /\ DOMAIN files = {"location_summary.csv"}
    /\ files["location_summary.csv"] = report[1].csv

\* C24: without a path argument, or with a path that names no file, the
\* run is fatal: main() prints one message, the usage or the missing file's
\* name, ends with status 1, and runs no aggregation, report or file stage.
C24_MissingSourceIsFatal ==
    source # "ok" =>
        /\ stages = <<>> /\ agg = <<>> /\ gaps = <<>> /\ report = <<>> /\ files = EmptyDict
        /\ exit_status # "exit0"
        /\ pc = "done" =>
              /\ exit_status = "exit1"
              /\ Len(console) = 1
              /\ IF source = "no_arg"
                 THEN Contains("Usage: python ", console[1][1])
                      /\ Contains(".py <csv_file_path>", console[1][1])
                 ELSE Contains("'" \o DataPath \o "' not found", console[1][1])

\* The run of telemedPercentage.py on a path that names no file has ended
C24_MissingFile ==
    /\ script = "telemedPercentage" /\ source = "missing" /\ pc = "done"
    /\ exit_status = "exit1"
    /\ console = << <<"Error: File 'visits.csv' not found.">> >>

\* C25: print_unique_client_list lists exactly the distinct trimmed
\* patients of the rows that satisfy every configured filter, a filter being
\* satisfied when the row's trimmed field equals the target ignoring case; a
\* row matching one of two filters, or with a blank Patient, adds nothing.
FilterCalled == pc = "done" /\ stages = <<"client_list">>

EqualIgnoringCase(s, t) == lower(s) = lower(t)

\* The row satisfies the filter on `key`, if one is configured
Satisfies(row, target, key) ==
    target[key] # None =>
        Present(row, key) /\ EqualIgnoringCase(Trimmed(row, key), target[key][1])

Selected(rows, target) ==
    {Trimmed(rows[i], "Patient") : i \in
        {i \in 1..Len(rows) : /\ Present(rows[i], "Patient")
                              /\ Satisfies(rows[i], target, "Location")
                              /\ Satisfies(rows[i], target, "Payor")}}

Listed == {report[1].console[i][1] : i \in 1..Len(report[1].console)}

C25_ConjunctiveFilter ==
    FilterCalled =>
        /\ Listed = Selected(data, report[1].target)
        /\ Len(report[1].console) = Cardinality(Listed)

\* Two filters, a row that matches both and a row that matches the
\* location alone
C25_OneOfTwoMatches ==
    /\ FilterCalled /\ script = "clientByLocationAndPayer"
    /\ report[1].target = [Location |-> Str("okc"), Payor |-> Str("MEDICARE")]
    /\ data = <<Row3(Str("OKC"), Str("Aetna"), Str("Cy")),
                Row3(Str("OKC"), Str("medicare "), Str(" Ann "))>>
    /\ report[1].console = << <<"Ann">> >>

\* C26: the console string, the txt lines and the csv rows of
\* generate_report carry the same (key, count) rows in the same order and
\* the same TOTAL, and TOTAL is the sum of the counts of the rows emitted.
ReportBuilt ==
    /\ script \in OneKeyScripts /\ StageDone("report") /\ ~StageDone("client_list")
    /\ ~report[1].nodata

\* The (key, count) rows and the TOTAL row of each rendering
ConsoleBody(rep) == SubSeq(rep.console, 2, Len(rep.console))
TxtBody(rep) == SubSeq(rep.txt, 3, Len(rep.txt))
CsvBody(rep) == SubSeq(rep.csv, 2, Len(rep.csv))

C26_RenderingsAgree ==
    ReportBuilt =>
        LET rep == report[1]
            n == Len(CsvBody(rep))
        IN  /\ n >= 2
            /\ ConsoleBody(rep) = TxtBody(rep)
            /\ Len(ConsoleBody(rep)) = n
            /\ \A i \in 1..n :
                  ConsoleBody(rep)[i] = <<CsvBody(rep)[i][1], ToString(CsvBody(rep)[i][2])>>
            /\ CsvBody(rep)[n][1] = "TOTAL"
            /\ CsvBody(rep)[n][2] = SumSeq([i \in 1..(n - 1) |-> CsvBody(rep)[i][2]])

\* A report with two rows of unlike counts
C26_TwoRows ==
    /\ ReportBuilt /\ script = "clientByLocation"
    /\ report[1].csv = << <<"Location", "Unique_Patients">>, <<"Ardmore", 1>>, <<"OKC", 2>>,
                          <<"TOTAL", 3>> >>
    /\ ConsoleBody(report[1]) = << <<"Ardmore", "1">>, <<"OKC", "2">>, <<"TOTAL", "3">> >>

\* C27: every csv file begins with a header row that names every column,
\* and every row after it has as many cells as the header; the matrix csv
\* has the header Location, the payors in alphabetical order, Total, and
\* ends with the TOTAL row, as wide as the header.
IsCsv(name) == Len(name) > 4 /\ SubSeq(name, Len(name) - 3, Len(name)) = ".csv"

\* The header the script's csv files are to have
CsvHeader(s, rows) ==
    CASE s \in OneKeyScripts -> <<KeyOf(s), "Unique_Patients">>
      [] s = "clientByLocationAndPayer" ->
             <<"Location">> \o SortedStrs(PayorsOf(rows)) \o <<"Total">>
      [] s = "telemedPercentage" ->
             <<"Patient", "Total_Visits", "Telemed_Visits", "Percentage", "Payors">>
      [] OTHER -> <<"Patient", "Telemedicine_Count", "Locations", "Payors">>

C27_CsvShape ==
    \A name \in DOMAIN files :
        IsCsv(name) =>
            LET csv == files[name]
            IN  /\ Len(csv) >= 1
                /\ csv[1] = CsvHeader(script, data)
                /\ \A r \in 1..Len(csv) : Len(csv[r]) = Len(csv[1])
                /\ script = "clientByLocationAndPayer" => Last(csv)[1] = "TOTAL"

\* A matrix with a location that lacks one of the payors
C27_SparseMatrix ==
    /\ script = "clientByLocationAndPayer" /\ "summary.csv" \in DOMAIN files
    /\ files["summary.csv"] = << <<"Location", "Aetna", "Medicare", "Total">>,
                                 <<"Ardmore", 1, 0, 1>>,
                                 <<"OKC", 0, 1, 1>>,
                                 <<"TOTAL", 1, 1, 2>> >>

\* C28: for a non-blank trimmed target L, the patients
\* print_unique_client_list(data, L) selects are the union of the grouping
\* aggregator's patient sets over the location keys equal to L ignoring
\* case; two spellings of a location are two groups but one filter result.
LocationFilterCalled == FilterCalled /\ script = "clientByLocation"

\* The location keys of the grouping that are the target in another or the same case
KeysLike(location_patients, target) ==
    {k \in DOMAIN location_patients : EqualIgnoringCase(k, target)}

C28_FilterIsUnionOfGroups ==
    LocationFilterCalled =>
        LET location_patients == GroupPatients(data, "Location")
            L == report[1].target["Location"][1]
            keys == KeysLike(location_patients, L)
        IN  /\ Listed = UNION {location_patients[k] : k \in keys}
            /\ \A k \in keys :
                  process_client_by_location(data)[k] <= Len(report[1].console)

\* OKC and okc are two groups of one patient each; the filter lists both patients
C28_TwoSpellings ==
    /\ LocationFilterCalled
    /\ report[1].target["Location"] = Str("OKC")
    /\ process_client_by_location(data) = [k \in {"OKC", "okc"} |-> 1]
    /\ report[1].console = << <<"Ann">>, <<"Bob">> >>

\* C29: process_telemedicine_data counts in total_count the rows whose
\* Service contains "telemedicine" in any case; the per-patient counts sum
\* to at most total_count, and to total_count exactly when every such row
\* names a patient; the location and payor summaries each sum to at most
\* total_count, and they count rows, not distinct patients.
TelemedicineProcessed == script = "telemedSort" /\ agg # <<>>

TelemedRows(rows) ==
    {i \in 1..Len(rows) : /\ "Service" \in DOMAIN rows[i] /\ rows[i]["Service"] # None
                          /\ Contains("telemedicine", lower(rows[i]["Service"][1]))}

SumValues(d) ==
    LET keys == SortedStrs(DOMAIN d)
    IN  SumSeq([i \in 1..Len(keys) |-> d[keys[i]]])

\* The rows of `among` whose trimmed `key` is `value`
RowsWith(rows, among, key, value) ==
    {i \in among : Present(rows[i], key) /\ Trimmed(rows[i], key) = value}

C29_TelemedicineCounts ==
    TelemedicineProcessed =>
        LET T == TelemedRows(data)
            details == agg[1].patient_details.of
            per_patient == SumValues([x \in DOMAIN details |-> details[x].count])
        IN  /\ agg[1].total_count = Cardinality(T)
            /\ per_patient <= agg[1].total_count
            /\ (per_patient = agg[1].total_count) <=> \A i \in T : Present(data[i], "Patient")
            /\ SumValues(agg[1].location_summary) <= agg[1].total_count
            /\ SumValues(agg[1].payor_summary) <= agg[1].total_count
            /\ \A k \in DOMAIN agg[1].location_summary :
                  agg[1].location_summary[k] = Cardinality(RowsWith(data, T, "Location", k))
            /\ \A k \in DOMAIN agg[1].payor_summary :
                  agg[1].payor_summary[k] = Cardinality(RowsWith(data, T, "Payor", k))
            /\ \A x \in DOMAIN details :
                  details[x].count = Cardinality(RowsWith(data, T, "Patient", x))

\* Two telemedicine rows of one patient and one without a patient, all at OKC
C29_RowsNotPatients ==
    /\ TelemedicineProcessed
    /\ agg[1].total_count = 3
    /\ DOMAIN agg[1].patient_details.of = {"Ann"}
    /\ agg[1].patient_details.of["Ann"].count = 2
    /\ agg[1].location_summary = [k \in {"OKC"} |-> 3]

\* C30: the number analyze_names prints beside a name, in the "First 10"
\* and in the "Last 10" listing, is the name's 1-based place among the
\* sorted unique names, also when there are fewer than 10 of them; and
\* process_names returns non-empty trimmed lines and their number.
NamesAnalyzed == script = "names_deduplication_script" /\ StageDone("analyze_names")

\* The 1-based place of `name` among the sorted names of `names`
PlaceOf(name, names) == 1 + Cardinality({x \in names : StrLess(x, name)})

NumberedByPlace(listing, names) ==
    \A i \in 1..Len(listing) :
        /\ listing[i][2] \in names
        /\ listing[i][1] = ToString(PlaceOf(listing[i][2], names))

C30_NumberIsPlace ==
    NamesAnalyzed =>
        /\ NumberedByPlace(report[1].first, agg[1].unique_names)
        /\ NumberedByPlace(report[1].last, agg[1].unique_names)
        /\ agg[1].total_unique = Cardinality(agg[1].unique_names)
        /\ \A name \in agg[1].unique_names :
              /\ name # "" /\ StripWs(name) = name
              /\ Len(SplitLines(name)) = 1
              /\ Contains(name, data)

\* The script run on its own text: two names, saved to the file
C30_TwoNames ==
    /\ NamesAnalyzed /\ pc = "done" /\ exit_status = "exit0"
    /\ data = OwnText
    /\ report[1].first = << <<"1", "Example, Example">>, <<"2", "Reed, Bobby">> >>
    /\ report[1].last = << <<"-7", "Example, Example">>, <<"-6", "Reed, Bobby">> >>
    /\ files["unique_names.txt"] = << <<"Example, Example">>, <<"Reed, Bobby">> >>

====
